---- MODULE Spec2Model ----
(***************************************************************************)
(* A model of the Redlock client of src/src/index.ts and of the three      *)
(* server-side scripts of src/src/scripts.ts.                              *)
(*                                                                         *)
(* Time is in milliseconds.  A duration handed to the public API is a      *)
(* JavaScript number; it is represented in half-milliseconds so that       *)
(* non-integer inputs exist (3 stands for 1.5 ms).  driftFactor is         *)
(* represented in hundredths (1 stands for 0.01).  The db handed to the    *)
(* constructor is a number too, in halves (31 stands for 15.5).            *)
(* A Partial<Settings> is a set of <<field, value>> pairs.  A lock value (32 hex characters in    *)
(* the program) is a positive integer, 0 standing for "no such key".       *)
(***************************************************************************)
EXTENDS Integers, Sequences, FiniteSets, TLC

---------------------------------------------------------------------------
(* Bounds of the model *)

MaxClients == 3     \* the servers of the largest manager
SoloClients == 2    \* the servers of the manager whose calls vary most
MaxTime == 2        \* the clock of the callers of acquire, extend and release
MaxCalls == 2       \* the calls one caller makes
MaxRejects == 1     \* the commands the network fails
Horizon == 300      \* the clock of the callers of using
MaxHandles == 6     \* the attempts one caller starts
MaxChain == 3       \* the calls of the caller that keeps its old Locks
MaxLosses == 2      \* the commands the network fails on its worst day
FarDb == 35         \* the highest db handed to the constructor, in halves

Keys == {"a", "b"}
NoValue == 0
ValueStride == 10
ErrorReply == -1
NotANumber == -2
ForeignValue == 99

VARIABLES
    now,        \* Date.now(), shared by the callers and the servers
    N,          \* this.clients.size
    settings,   \* this.settings
    store,      \* store[c][k]: the entry of key k on the server behind client c
    pc,         \* where each caller's asynchronous call stands
    call,       \* the Redlock method each caller is in, with its arguments
    exec,       \* the frame of _execute each caller is in
    stats,      \* stats[p]: the ExecutionStats of every attempt p has started
    rpcs,       \* rpcs[p][c]: the commands p sent through client c, not settled
    locks,      \* locks[p]: the Lock instances handed to caller p
    result,     \* how the last call of each caller ended
    calls,      \* the number of calls each caller has made
    minted,     \* the number of lock values each caller has drawn
    use,        \* use[p]: the closure of the call of `using` p has made
    held        \* held[p]: the servers on which a key of the acquire p called
                \* last has been another lock's ever since the call began

vars == <<now, N, settings, store, pc, call, exec, stats, rpcs, locks, result,
          calls, minted, use, held>>

Clients == 1..N

Callers == DOMAIN pc

---------------------------------------------------------------------------
(* Numbers given in halves *)

\* Math.floor(duration) on a number in half-milliseconds
Floor(h) == h - (h % 2)

IsInteger(h) == Floor(h) = h

Ms(h) == h \div 2

---------------------------------------------------------------------------
(* Settings *)

defaultSettings ==
    [driftFactor |-> 1, retryCount |-> 10, retryDelay |-> 200,
     retryJitter |-> 100, automaticExtensionThreshold |-> 500, db |-> 0]

Has(partial, f) == \E e \in partial : e[1] = f

Field(partial, f) == (CHOOSE e \in partial : e[1] = f)[2]

\* A constructor that takes any db from 0 up, rounded down
ConstructorUnbounded(given) ==
    [f \in DOMAIN defaultSettings |->
        IF f = "db"
        THEN IF Has(given, f) /\ Field(given, f) >= 0
             THEN Ms(Field(given, f)) ELSE defaultSettings[f]
        ELSE IF Has(given, f) THEN Field(given, f) ELSE defaultSettings[f]]

\* new Redlock(clients, settings): the settings of the instance
Constructor(given) ==
    [f \in DOMAIN defaultSettings |->
        IF f = "db"
        THEN IF /\ Has(given, f)
                /\ IsInteger(Field(given, f))
                /\ Ms(Field(given, f)) >= 0
                /\ Ms(Field(given, f)) <= 15
             THEN Ms(Field(given, f)) ELSE defaultSettings[f]
        ELSE IF Has(given, f) THEN Field(given, f) ELSE defaultSettings[f]]

\* A merge in which the settings of the call count for nothing
MergeNone(base, partial) == base

\* { ...this.settings, ..._settings }
Merge(base, partial) ==
    [f \in DOMAIN base |-> IF Has(partial, f) THEN Field(partial, f) ELSE base[f]]

\* The driftFactor of the manager, whatever the call gives
ManagerDriftFactor(partial) == settings.driftFactor

\* settings?.driftFactor ?? this.settings.driftFactor
DriftFactorOf(partial) ==
    IF Has(partial, "driftFactor") THEN Field(partial, "driftFactor")
    ELSE settings.driftFactor

---------------------------------------------------------------------------
(* Numbers *)

\* Math.round(num / den), den > 0: the nearest integer, a tie going up
Round(num, den) == (2 * num + den) \div (2 * den)

\* Math.round(driftFactor * duration) + 2
Drift(driftFactor, duration) == Round(driftFactor * duration, 100) + 2

\* Half the servers, rounded down: one short of a majority
HalfSize(n) == n \div 2

\* Math.floor(clientResults.length / 2) + 1
QuorumSize(n) == (n \div 2) + 1

---------------------------------------------------------------------------
(* The server-side scripts, on the keyspace db of one server at time t *)

NoEntry == [value |-> NoValue, expires |-> 0]

SetPX(db, keys, value, duration, t) ==
    [k \in Keys |-> IF k \in keys
                    THEN [value |-> value, expires |-> t + duration]
                    ELSE db[k]]

\* An acquire script that takes the keys that are free and leaves the others
AcquireScriptPiecemeal(db, keys, value, duration, t) ==
    LET free == {k \in keys : db[k].value = NoValue}
    IN  [reply |-> IF free = keys THEN Cardinality(keys) ELSE 0,
         db |-> SetPX(db, free, value, duration, t)]

\* The first SET ... PX of a script whose duration is under 1 ms raises
\* "invalid expire time": the script ends with an error reply, nothing set.
AcquireScript(db, keys, value, duration, t) ==
    IF \E k \in keys : db[k].value # NoValue
    THEN [reply |-> 0, db |-> db]
    ELSE IF duration < 1
    THEN [reply |-> ErrorReply, db |-> db]
    ELSE [reply |-> Cardinality(keys), db |-> SetPX(db, keys, value, duration, t)]

\* An extend script that counts the keys of the lock and refreshes none
ExtendScriptIdle(db, keys, value, duration, t) ==
    [reply |-> IF \E k \in keys : db[k].value # value
               THEN 0 ELSE Cardinality(keys),
     db |-> db]

ExtendScript(db, keys, value, duration, t) ==
    IF \E k \in keys : db[k].value # value
    THEN [reply |-> 0, db |-> db]
    ELSE IF duration < 1
    THEN [reply |-> ErrorReply, db |-> db]
    ELSE [reply |-> Cardinality(keys), db |-> SetPX(db, keys, value, duration, t)]

\* A release script that counts the keys of the lock and deletes none
ReleaseScriptCounting(db, keys, value) ==
    [reply |-> Cardinality({k \in keys : db[k].value = value}), db |-> db]

ReleaseScript(db, keys, value) ==
    LET mine == {k \in keys : db[k].value = value}
    IN  [reply |-> Cardinality(mine),
         db |-> [k \in Keys |-> IF k \in mine THEN NoEntry ELSE db[k]]]

RunScript(script, db, keys, value, duration, t) ==
    CASE script = "acquireLock" -> AcquireScript(db, keys, value, duration, t)
      [] script = "extendLock" -> ExtendScript(db, keys, value, duration, t)
      [] script = "releaseLock" -> ReleaseScript(db, keys, value)

\* A server that keeps its keys for ever
ExpireNever(db, t) == db

\* The keys of a server whose TTL has run out by time t are gone.
Expire(db, t) ==
    [k \in Keys |-> IF db[k].value # NoValue /\ db[k].expires <= t
                    THEN NoEntry ELSE db[k]]

---------------------------------------------------------------------------
(* One attempt: _attemptOperationOnClient and _attemptOperation *)

\* An adapter call that takes any reply for a vote for
ClientResultAny(reply, keys) == [vote |-> "for", error |-> "none"]

\* An adapter call that takes a reply short of the keys requested for a
\* failure of the command
ClientResultBlunt(reply, keys) ==
    IF reply # Cardinality(keys)
    THEN [vote |-> "against", error |-> "Error"]
    ELSE [vote |-> "for", error |-> "none"]

\* The outcome of one adapter call that got the reply `reply`: a number, or
\* NotANumber for a value of any other type
ClientResult(reply, keys) ==
    IF reply = NotANumber
    THEN [vote |-> "against", error |-> "Unexpected result"]
    ELSE IF reply # Cardinality(keys)
    THEN [vote |-> "against", error |-> "ResourceLockedError"]
    ELSE [vote |-> "for", error |-> "none"]

\* The outcome of an adapter call whose command was rejected by the client
ClientError == [vote |-> "against", error |-> "Error"]

\* The outcome of an adapter call whose script ended with an error reply
ClientReplyError == [vote |-> "against", error |-> "ReplyError"]

\* The stats record and the pending promise of a new attempt; `failed` is
\* the clients whose adapter call was rejected, which no vote stands for
NewStats(e, t) ==
    [script |-> e.command, keys |-> e.keys, value |-> e.value,
     duration |-> e.duration, start |-> t,
     membershipSize |-> N, quorumSize |-> QuorumSize(N),
     votesFor |-> {}, votesAgainst |-> {}, failed |-> {},
     vote |-> "none", done |-> FALSE]

\* A collector that completes the stats handle when the attempt resolves
OnResultResolveEarly(st, c, r) ==
    LET for == IF r.vote = "for" THEN st.votesFor \cup {c} ELSE st.votesFor
        against == IF r.vote = "against"
                   THEN {e \in st.votesAgainst : e[1] # c} \cup {<<c, r.error>>}
                   ELSE st.votesAgainst
        decided == IF Cardinality(for) = st.quorumSize THEN "for"
                   ELSE IF Cardinality(against) = st.quorumSize THEN "against"
                   ELSE "none"
    IN  [st EXCEPT !.votesFor = for,
                   !.votesAgainst = against,
                   !.vote = IF st.vote = "none" THEN decided ELSE st.vote,
                   !.done = st.done \/ decided # "none"]

\* A collector that lets the first vote decide the attempt
OnResultResolveFirst(st, c, r) ==
    LET for == IF r.vote = "for" THEN st.votesFor \cup {c} ELSE st.votesFor
        against == IF r.vote = "against"
                   THEN {e \in st.votesAgainst : e[1] # c} \cup {<<c, r.error>>}
                   ELSE st.votesAgainst
    IN  [st EXCEPT !.votesFor = for,
                   !.votesAgainst = against,
                   !.vote = IF st.vote = "none" THEN r.vote ELSE st.vote,
                   !.done = st.done \/
                      Cardinality(for) + Cardinality(against) = st.membershipSize]

\* onResultResolve(clientResult): votesAgainst is a set of <<client, error>>
OnResultResolve(st, c, r) ==
    LET for == IF r.vote = "for" THEN st.votesFor \cup {c} ELSE st.votesFor
        against == IF r.vote = "against"
                   THEN {e \in st.votesAgainst : e[1] # c} \cup {<<c, r.error>>}
                   ELSE st.votesAgainst
        decided == IF Cardinality(for) = st.quorumSize THEN "for"
                   ELSE IF Cardinality(against) = st.quorumSize THEN "against"
                   ELSE "none"
    IN  [st EXCEPT !.votesFor = for,
                   !.votesAgainst = against,
                   !.vote = IF st.vote = "none" THEN decided ELSE st.vote,
                   !.done = st.done \/
                      Cardinality(for) + Cardinality(against) = st.membershipSize]

---------------------------------------------------------------------------
(* _execute *)

\* A loop of retryCount attempts, not retryCount + 1
FewerAttempts(length, retryCount) == length < retryCount

\* A loop for which a retryCount of -1 is a number like any other
MoreAttemptsCounted(length, retryCount) == length < retryCount + 1

\* attempts.length < maxAttempts, with maxAttempts = Infinity for retryCount -1
MoreAttempts(length, retryCount) ==
    retryCount = -1 \/ length < retryCount + 1

\* Math.floor((Math.random() * 2 - 1) * retryJitter)
Jitters(retryJitter) ==
    IF retryJitter > 0 THEN (-retryJitter)..(retryJitter - 1) ELSE {0}

\* A wait of no time at all between two attempts
DelayNone(retryDelay, jitter) == 0

\* Math.max(0, retryDelay + jitter)
Delay(retryDelay, jitter) ==
    IF retryDelay + jitter > 0 THEN retryDelay + jitter ELSE 0

NoExec ==
    [command |-> "none", keys |-> {}, value |-> NoValue, duration |-> 0,
     retryCount |-> 0, retryDelay |-> 0, retryJitter |-> 0,
     attempts |-> <<>>, start |-> 0, wakeAt |-> 0]

NewExec(command, keys, value, duration, partial) ==
    LET s == Merge(settings, partial)
    IN  [command |-> command, keys |-> keys, value |-> value,
         duration |-> duration, retryCount |-> s.retryCount,
         retryDelay |-> s.retryDelay, retryJitter |-> s.retryJitter,
         attempts |-> <<>>, start |-> 0, wakeAt |-> 0]

\* A microtask is pending: the continuation of a resolved promise runs before
\* any timer, any reply and any other caller.
Busy(p) ==
    \/ pc[p] \in {"resolved", "returned", "thrown"}
    \/ pc[p] = "idle" /\ use[p].phase \in {"acquiring", "releasing"}
    \/ pc[p] = "idle" /\ use[p].extension = "pending"
    \/ use[p].phase = "finally" /\ use[p].extension # "pending"

Quiet == \A p \in Callers : ~Busy(p)

\* The head of the loop of _execute with frame e: the next attempt is started
\* (all N adapter calls are issued), or ExecutionError is thrown.
Iterate(p, e) ==
    /\ exec' = [exec EXCEPT ![p] = e]
    /\ IF MoreAttempts(Len(e.attempts), e.retryCount)
       THEN /\ stats' = [stats EXCEPT ![p] = Append(@, NewStats(e, now))]
            /\ rpcs' = [rpcs EXCEPT ![p] = [c \in Clients |-> Append(@[c],
                           [attempt |-> Len(stats[p]) + 1, ran |-> FALSE,
                            reply |-> 0])]]
            /\ pc' = [pc EXCEPT ![p] = "attempt"]
       ELSE /\ pc' = [pc EXCEPT ![p] = "thrown"]
            /\ UNCHANGED <<stats, rpcs>>

\* A key of `resources` is on the server, under the value of another lock.
Blocks(db, resources, value) ==
    \E k \in resources : db[k].value # NoValue /\ db[k].value # value

\* held, once the servers' keyspaces have become `after`: a server stays in
\* held[p] for as long as it blocks the attempts of the acquire p called
\* last, the ones that carry the value p drew last.
Watch(h, after) ==
    [p \in Callers |->
        LET mine == {a \in 1..Len(stats[p]) :
                        /\ stats[p][a].script = "acquireLock"
                        /\ stats[p][a].value = p * ValueStride + minted[p]}
        IN  {c \in h[p] : \A a \in mine :
                Blocks(after[c], stats[p][a].keys, stats[p][a].value)}]

\* Every caller is a process with connections of its own.  A client sends
\* its commands over one connection: the server runs them, and the replies
\* come back, in the order sent.
NextToRun(p, c) ==
    CHOOSE i \in 1..Len(rpcs[p][c]) :
        ~rpcs[p][c][i].ran /\ \A j \in 1..(i - 1) : rpcs[p][c][j].ran

\* The server behind client c runs the script of the oldest command of p it
\* has not run yet; the reply is on its way.
Run(p, c) ==
    /\ Quiet
    /\ \E i \in 1..Len(rpcs[p][c]) : ~rpcs[p][c][i].ran
    /\ LET i == NextToRun(p, c)
           st == stats[p][rpcs[p][c][i].attempt]
           out == RunScript(st.script, store[c], st.keys, st.value,
                            st.duration, now)
       IN  /\ store' = [store EXCEPT ![c] = out.db]
           /\ rpcs' = [rpcs EXCEPT ![p][c][i].ran = TRUE,
                                   ![p][c][i].reply = out.reply]
    /\ held' = Watch(held, store')
    /\ UNCHANGED <<now, N, settings, pc, call, exec, stats, locks, result,
                   calls, minted, use>>

\* The oldest command p sent through client c settles with outcome r and is
\* tallied; the vote that decides the attempt resolves its promise.
Settle(p, c, r) ==
    LET a == Head(rpcs[p][c]).attempt
        new == OnResultResolve(stats[p][a], c, r)
    IN  /\ stats' = [stats EXCEPT ![p][a] = new]
        /\ rpcs' = [rpcs EXCEPT ![p][c] = Tail(@)]
        /\ pc' = IF stats[p][a].vote = "none" /\ new.vote # "none"
                 THEN [pc EXCEPT ![p] = "resolved"] ELSE pc
        /\ UNCHANGED <<now, N, settings, store, call, exec, locks, result,
                       calls, minted, use, held>>

\* Client c of p gets the reply of its oldest command.
Reply(p, c) ==
    /\ Quiet
    /\ rpcs[p][c] # <<>>
    /\ Head(rpcs[p][c]).ran
    /\ Settle(p, c, IF Head(rpcs[p][c]).reply = ErrorReply
                    THEN ClientReplyError
                    ELSE ClientResult(Head(rpcs[p][c]).reply,
                                      stats[p][Head(rpcs[p][c]).attempt].keys))

\* Client c of p gets the reply of its oldest command as a value that is no
\* number: the client hands out the integers of the server as strings.
Mistyped(p, c) ==
    /\ Quiet
    /\ rpcs[p][c] # <<>>
    /\ Head(rpcs[p][c]).ran
    /\ Head(rpcs[p][c]).reply # ErrorReply
    /\ Settle(p, c, ClientResult(NotANumber,
                                 stats[p][Head(rpcs[p][c]).attempt].keys))

Rejected ==
    {<<p, a, c>> \in UNION {{p} \X (1..Len(stats[p])) \X Clients : p \in Callers} :
        <<c, "Error">> \in stats[p][a].votesAgainst}

\* The oldest command p sent through client c fails (connection closed,
\* timeout), as fewer than `budget` commands have: if the script has not
\* run yet it never will.
RejectUpTo(p, c, budget) ==
    /\ Quiet
    /\ rpcs[p][c] # <<>>
    /\ Cardinality(Rejected) < budget
    /\ Settle(p, c, ClientError)

Reject(p, c) == RejectUpTo(p, c, MaxRejects)

\* The process of caller p has not been ended by an uncaught error.
Alive(p) == pc[p] # "crashed"

\* The adapter call of the oldest command p sent through client c is
\* rejected, the first of p to be: what the command failed with is no Error,
\* or a listener of the "error" event threw.  onResultReject throws in its
\* turn, inside a promise callback: nothing is tallied, and the rejection
\* that nobody handles either ends the process or is reported and left at
\* that, as the process is set up.
AdapterRejects(p, c) ==
    /\ Quiet
    /\ Alive(p)
    /\ rpcs[p][c] # <<>>
    /\ \A a \in 1..Len(stats[p]) : stats[p][a].failed = {}
    /\ stats' = [stats EXCEPT ![p][Head(rpcs[p][c]).attempt].failed =
                                 @ \cup {c}]
    /\ rpcs' = [rpcs EXCEPT ![p][c] = Tail(@)]
    /\ \/ pc' = [pc EXCEPT ![p] = "crashed"]
       \/ pc' = pc
    /\ UNCHANGED <<now, N, settings, store, call, exec, locks, result, calls,
                   minted, use, held>>

\* A continuation that keeps the start of the first attempt of the loop
ResolvedFirstStart(p) ==
    /\ pc[p] = "resolved"
    /\ LET a == Len(stats[p])
           e == [exec[p] EXCEPT !.attempts = Append(@, a),
                                !.start = stats[p][a - Len(exec[p].attempts)].start]
       IN  IF stats[p][a].vote = "for"
           THEN /\ exec' = [exec EXCEPT ![p] = e]
                /\ pc' = [pc EXCEPT ![p] = "returned"]
           ELSE IF MoreAttempts(Len(e.attempts), e.retryCount)
           THEN \E j \in Jitters(e.retryJitter) :
                  /\ exec' = [exec EXCEPT ![p] =
                        [e EXCEPT !.wakeAt = now + Delay(e.retryDelay, j)]]
                  /\ pc' = [pc EXCEPT ![p] = "sleep"]
           ELSE /\ exec' = [exec EXCEPT ![p] = e]
                /\ pc' = [pc EXCEPT ![p] = "thrown"]
    /\ UNCHANGED <<now, N, settings, store, call, stats, rpcs, locks, result,
                   calls, minted, use, held>>

\* The continuation of `await this._attemptOperation(...)` in _execute
Resolved(p) ==
    /\ pc[p] = "resolved"
    /\ LET a == Len(stats[p])
           e == [exec[p] EXCEPT !.attempts = Append(@, a),
                                !.start = stats[p][a].start]
       IN  IF stats[p][a].vote = "for"
           THEN /\ exec' = [exec EXCEPT ![p] = e]
                /\ pc' = [pc EXCEPT ![p] = "returned"]
           ELSE IF MoreAttempts(Len(e.attempts), e.retryCount)
           THEN \E j \in Jitters(e.retryJitter) :
                  /\ exec' = [exec EXCEPT ![p] =
                        [e EXCEPT !.wakeAt = now + Delay(e.retryDelay, j)]]
                  /\ pc' = [pc EXCEPT ![p] = "sleep"]
           ELSE /\ exec' = [exec EXCEPT ![p] = e]
                /\ pc' = [pc EXCEPT ![p] = "thrown"]
    /\ UNCHANGED <<now, N, settings, store, call, stats, rpcs, locks, result,
                   calls, minted, use, held>>

\* The timer of the wait between two attempts fires.
Wake(p) ==
    /\ Quiet
    /\ pc[p] = "sleep"
    /\ now >= exec[p].wakeAt
    /\ Iterate(p, exec[p])
    /\ UNCHANGED <<now, N, settings, store, call, locks, result, calls, minted,
                   use, held>>

\* The timer fires for a caller that has started fewer than MaxHandles
\* attempts.
WakeUpTo(p) == Len(stats[p]) < MaxHandles /\ Wake(p)

---------------------------------------------------------------------------
(* The public methods: acquire, release, extend *)

NoCall ==
    [method |-> "none", resources |-> {}, duration |-> 0, settings |-> {},
     value |-> NoValue, lock |-> 0, error |-> <<>>]

NoResult ==
    [kind |-> "none", method |-> "none", attempts |-> <<>>, start |-> 0,
     message |-> "none"]

\* this._random(): a value no other call has drawn
Random(p) == p * ValueStride + minted[p] + 1

\* new Lock(this, resources, value, attempts, expiration, settings)
Lock(resources, value, attempts, expiration, partial) ==
    [resources |-> resources, value |-> value, attempts |-> attempts,
     expiration |-> expiration, settings |-> partial]

\* A Lock that expires at the start of the attempt plus the duration
ExpirationUndrifted(start, duration, partial) == start + duration

\* start + duration - drift
Expiration(start, duration, partial) ==
    start + duration - Drift(DriftFactorOf(partial), duration)

Throw(p, method, kind, message, attempts) ==
    /\ result' = [result EXCEPT ![p] =
          [kind |-> kind, method |-> method, attempts |-> attempts,
           start |-> 0, message |-> message]]
    /\ call' = [call EXCEPT ![p] = NoCall]
    /\ pc' = [pc EXCEPT ![p] = "idle"]

Return(p, method, kind, attempts, start) ==
    /\ result' = [result EXCEPT ![p] =
          [kind |-> kind, method |-> method, attempts |-> attempts,
           start |-> start, message |-> "none"]]
    /\ call' = [call EXCEPT ![p] = NoCall]
    /\ pc' = [pc EXCEPT ![p] = "idle"]

\* redlock.acquire(resources, duration, settings), to its first await
acquire(p, resources, duration, partial) ==
    /\ IF ~IsInteger(duration)
       THEN /\ Throw(p, "acquire", "Error", "Duration must be an integer", <<>>)
            /\ UNCHANGED <<exec, stats, rpcs, minted, held>>
       ELSE /\ minted' = [minted EXCEPT ![p] = @ + 1]
            /\ call' = [call EXCEPT ![p] =
                  [method |-> "acquire", resources |-> resources,
                   duration |-> Ms(duration), settings |-> partial,
                   value |-> Random(p), lock |-> 0, error |-> <<>>]]
            /\ held' = [held EXCEPT ![p] =
                  {c \in Clients : Blocks(store[c], resources, Random(p))}]
            /\ Iterate(p, NewExec("acquireLock", resources, Random(p),
                                  Ms(duration), partial))
            /\ UNCHANGED result
    /\ UNCHANGED <<now, N, settings, store, locks>>

\* acquire: _execute has returned { attempts, start }
AcquireReturn(p) ==
    /\ pc[p] = "returned"
    /\ call[p].method = "acquire"
    /\ locks' = [locks EXCEPT ![p] = Append(@,
          Lock(call[p].resources, call[p].value, exec[p].attempts,
               Expiration(exec[p].start, call[p].duration, call[p].settings),
               call[p].settings))]
    /\ Return(p, "acquire", "Lock", exec[p].attempts, exec[p].start)
    /\ exec' = [exec EXCEPT ![p] = NoExec]
    /\ UNCHANGED <<now, N, settings, store, stats, rpcs, calls, minted, use,
                   held>>

\* A catch block whose cleanup release retries as the manager is set to
AcquireCatchRetrying(p) ==
    /\ pc[p] = "thrown"
    /\ call[p].method = "acquire"
    /\ call' = [call EXCEPT ![p].method = "cleanup",
                            ![p].error = exec[p].attempts]
    /\ Iterate(p, NewExec("releaseLock", call[p].resources, call[p].value, 0,
                          {}))
    /\ UNCHANGED <<now, N, settings, store, locks, result, calls, minted, use,
                   held>>

\* acquire: _execute has thrown; the catch block starts the cleanup release
AcquireCatch(p) ==
    /\ pc[p] = "thrown"
    /\ call[p].method = "acquire"
    /\ call' = [call EXCEPT ![p].method = "cleanup",
                            ![p].error = exec[p].attempts]
    /\ Iterate(p, NewExec("releaseLock", call[p].resources, call[p].value, 0,
                          {<<"retryCount", 0>>}))
    /\ UNCHANGED <<now, N, settings, store, locks, result, calls, minted, use,
                   held>>

\* acquire: the cleanup release has settled either way; `throw error`
AcquireRethrow(p) ==
    /\ pc[p] \in {"returned", "thrown"}
    /\ call[p].method = "cleanup"
    /\ Throw(p, "acquire", "ExecutionError", "unable to achieve a quorum",
             call[p].error)
    /\ exec' = [exec EXCEPT ![p] = NoExec]
    /\ UNCHANGED <<now, N, settings, store, stats, rpcs, locks, calls, minted,
                   use, held>>

\* A release that leaves the expiration of the Lock as it is
releaseKeeping(p, i, partial) ==
    /\ call' = [call EXCEPT ![p] =
          [method |-> "release", resources |-> locks[p][i].resources,
           duration |-> 0, settings |-> partial,
           value |-> locks[p][i].value, lock |-> i, error |-> <<>>]]
    /\ Iterate(p, NewExec("releaseLock", locks[p][i].resources,
                          locks[p][i].value, 0, partial))
    /\ UNCHANGED <<now, N, settings, store, result, minted, held, locks>>

\* redlock.release(lock, settings) on Lock i of caller p, to its first await
release(p, i, partial) ==
    /\ locks' = [locks EXCEPT ![p][i].expiration = 0]
    /\ call' = [call EXCEPT ![p] =
          [method |-> "release", resources |-> locks[p][i].resources,
           duration |-> 0, settings |-> partial,
           value |-> locks[p][i].value, lock |-> i, error |-> <<>>]]
    /\ Iterate(p, NewExec("releaseLock", locks[p][i].resources,
                          locks[p][i].value, 0, partial))
    /\ UNCHANGED <<now, N, settings, store, result, minted, held>>

ReleaseReturn(p) ==
    /\ pc[p] = "returned"
    /\ call[p].method = "release"
    /\ Return(p, "release", "ExecutionResult", exec[p].attempts, exec[p].start)
    /\ exec' = [exec EXCEPT ![p] = NoExec]
    /\ UNCHANGED <<now, N, settings, store, stats, rpcs, locks, calls, minted,
                   use, held>>

ReleaseThrow(p) ==
    /\ pc[p] = "thrown"
    /\ call[p].method = "release"
    /\ Throw(p, "release", "ExecutionError", "unable to achieve a quorum",
             exec[p].attempts)
    /\ exec' = [exec EXCEPT ![p] = NoExec]
    /\ UNCHANGED <<now, N, settings, store, stats, rpcs, locks, calls, minted,
                   use, held>>

\* An extend that takes an expired Lock to the servers
extendExpired(p, i, duration, partial) ==
    /\ IF ~IsInteger(duration)
       THEN /\ Throw(p, "extend", "Error", "Duration must be an integer", <<>>)
            /\ UNCHANGED <<exec, stats, rpcs>>
       ELSE /\ call' = [call EXCEPT ![p] =
                  [method |-> "extend", resources |-> locks[p][i].resources,
                   duration |-> Ms(duration), settings |-> partial,
                   value |-> locks[p][i].value, lock |-> i,
                   error |-> <<>>]]
            /\ Iterate(p, NewExec("extendLock", locks[p][i].resources,
                                  locks[p][i].value, Ms(duration), partial))
            /\ UNCHANGED result
    /\ UNCHANGED <<now, N, settings, store, locks, minted, held>>

\* redlock.extend(existing, duration, settings) on Lock i of caller p, to its
\* first await
extend(p, i, duration, partial) ==
    /\ IF ~IsInteger(duration)
       THEN /\ Throw(p, "extend", "Error", "Duration must be an integer", <<>>)
            /\ UNCHANGED <<exec, stats, rpcs>>
       ELSE IF locks[p][i].expiration < now
       THEN /\ Throw(p, "extend", "ExecutionError",
                     "Cannot extend an already-expired lock", <<>>)
            /\ UNCHANGED <<exec, stats, rpcs>>
       ELSE /\ call' = [call EXCEPT ![p] =
                  [method |-> "extend", resources |-> locks[p][i].resources,
                   duration |-> Ms(duration), settings |-> partial,
                   value |-> locks[p][i].value, lock |-> i,
                   error |-> <<>>]]
            /\ Iterate(p, NewExec("extendLock", locks[p][i].resources,
                                  locks[p][i].value, Ms(duration), partial))
            /\ UNCHANGED result
    /\ UNCHANGED <<now, N, settings, store, locks, minted, held>>

\* An extend that hands out the new Lock and leaves the old one valid
ExtendedKeeping(mine, i, new) == Append(mine, new)

\* existing.expiration = 0; return new Lock(...): the Locks of a caller, of
\* which Lock i has been extended into `new`
Extended(mine, i, new) == Append([mine EXCEPT ![i].expiration = 0], new)

\* extend: _execute has returned; the old Lock is invalidated, a new one made
ExtendReturn(p) ==
    /\ pc[p] = "returned"
    /\ call[p].method = "extend"
    /\ locks' = [locks EXCEPT ![p] = Extended(@, call[p].lock,
          Lock(call[p].resources, call[p].value, exec[p].attempts,
               Expiration(exec[p].start, call[p].duration, call[p].settings),
               call[p].settings))]
    /\ Return(p, "extend", "Lock", exec[p].attempts, exec[p].start)
    /\ exec' = [exec EXCEPT ![p] = NoExec]
    /\ UNCHANGED <<now, N, settings, store, stats, rpcs, calls, minted, use,
                   held>>

\* An extend that invalidates the existing Lock when it fails
ExtendThrowInvalidating(p) ==
    /\ pc[p] = "thrown"
    /\ call[p].method = "extend"
    /\ Throw(p, "extend", "ExecutionError", "unable to achieve a quorum",
             exec[p].attempts)
    /\ exec' = [exec EXCEPT ![p] = NoExec]
    /\ locks' = [locks EXCEPT ![p][call[p].lock].expiration = 0]
    /\ UNCHANGED <<now, N, settings, store, stats, rpcs, calls, minted, use,
                   held>>

\* extend: _execute has thrown, and so does extend
ExtendThrow(p) ==
    /\ pc[p] = "thrown"
    /\ call[p].method = "extend"
    /\ Throw(p, "extend", "ExecutionError", "unable to achieve a quorum",
             exec[p].attempts)
    /\ exec' = [exec EXCEPT ![p] = NoExec]
    /\ UNCHANGED <<now, N, settings, store, stats, rpcs, locks, calls, minted,
                   use, held>>

---------------------------------------------------------------------------
(* A caller of the three methods.  It extends and releases the Lock it was *)
(* handed last: the one instance of its lock that is not invalidated.      *)

CanCall(p) == Quiet /\ pc[p] = "idle" /\ calls[p] < MaxCalls

Acquire(p, resources, duration, partial) ==
    /\ CanCall(p)
    /\ use[p].phase = "none"
    /\ calls' = [calls EXCEPT ![p] = @ + 1]
    /\ acquire(p, resources, duration, partial)
    /\ UNCHANGED use

Release(p, partial) ==
    /\ CanCall(p)
    /\ use[p].phase = "none"
    /\ Len(locks[p]) > 0
    /\ calls' = [calls EXCEPT ![p] = @ + 1]
    /\ release(p, Len(locks[p]), partial)
    /\ UNCHANGED use

Extend(p, duration, partial) ==
    /\ CanCall(p)
    /\ use[p].phase = "none"
    /\ Len(locks[p]) > 0
    /\ calls' = [calls EXCEPT ![p] = @ + 1]
    /\ extend(p, Len(locks[p]), duration, partial)
    /\ UNCHANGED use

\* A caller that keeps every Lock instance it was handed, and extends or
\* releases any of them, in up to MaxChain calls.
ExtendAny(p, i, duration, partial) ==
    /\ Quiet
    /\ pc[p] = "idle"
    /\ calls[p] < MaxChain
    /\ use[p].phase = "none"
    /\ i \in 1..Len(locks[p])
    /\ calls' = [calls EXCEPT ![p] = @ + 1]
    /\ extend(p, i, duration, partial)
    /\ UNCHANGED use

ReleaseAny(p, i, partial) ==
    /\ Quiet
    /\ pc[p] = "idle"
    /\ calls[p] < MaxChain
    /\ use[p].phase = "none"
    /\ i \in 1..Len(locks[p])
    /\ calls' = [calls EXCEPT ![p] = @ + 1]
    /\ release(p, i, partial)
    /\ UNCHANGED use

---------------------------------------------------------------------------
(* using: the routine runs under a lock that a timer keeps extending *)

NoTimer == 0

NoUse ==
    [phase |-> "none", duration |-> 0, threshold |-> 0, lock |-> 0,
     extensions |-> 0, timeout |-> NoTimer, extension |-> "undefined",
     aborted |-> FALSE, error |-> "none", routine |-> "none",
     outcome |-> "none", releases |-> 0, abortedLate |-> FALSE]

\* The settings object `using` hands to acquire, as a Partial<Settings>
Whole(s) == {<<f, s[f]>> : f \in DOMAIN s}

\* setTimeout(callback, delay): a delay under 1 ms is one of 1 ms
TimerAt(delay) == now + (IF delay < 1 THEN 1 ELSE delay)

\* queue(), with context.lock the Lock `lock`
Queue(u, lock) ==
    [u EXCEPT !.timeout = TimerAt(lock.expiration - now - u.threshold)]

\* A catch block that aborts the signal and leaves signal.error unset
AbortSilent(u, error) ==
    [u EXCEPT !.aborted = TRUE, !.extension = "settled",
              !.abortedLate = (u.phase = "settled")]

\* The catch block of extend() once the lock has expired: signal.error is
\* set to the error caught, and the signal aborts.
Abort(u, error) ==
    [u EXCEPT !.error = error, !.aborted = TRUE, !.extension = "settled",
              !.abortedLate = (u.phase = "settled")]

\* redlock.using(resources, duration, settings, routine), to its first await
Using(p, resources, duration, partial) ==
    /\ CanCall(p)
    /\ use[p].phase = "none"
    /\ calls' = [calls EXCEPT ![p] = @ + 1]
    /\ LET s == Merge(settings, partial)
       IN  IF ~IsInteger(duration)
           THEN /\ Throw(p, "using", "Error", "Duration must be an integer", <<>>)
                /\ use' = [use EXCEPT ![p].phase = "settled",
                                      ![p].outcome = "thrown"]
                /\ UNCHANGED <<now, N, settings, store, exec, stats, rpcs,
                               locks, minted, held>>
           ELSE IF s.automaticExtensionThreshold > Ms(duration) - 100
           THEN /\ Throw(p, "using", "Error", "duration too short", <<>>)
                /\ use' = [use EXCEPT ![p].phase = "settled",
                                      ![p].outcome = "thrown"]
                /\ UNCHANGED <<now, N, settings, store, exec, stats, rpcs,
                               locks, minted, held>>
           ELSE /\ use' = [use EXCEPT ![p].phase = "acquiring",
                                      ![p].duration = duration,
                                      ![p].threshold = s.automaticExtensionThreshold]
                /\ acquire(p, resources, duration, Whole(s))

\* using: acquire has settled; with a Lock the timer is set and the routine
\* starts, without one `using` throws what acquire threw.
UsingAcquired(p) ==
    /\ use[p].phase = "acquiring"
    /\ pc[p] = "idle"
    /\ use' = [use EXCEPT ![p] =
          IF result[p].kind = "Lock"
          THEN Queue([@ EXCEPT !.phase = "routine", !.lock = Len(locks[p])],
                     locks[p][Len(locks[p])])
          ELSE [@ EXCEPT !.phase = "settled", !.outcome = "thrown"]]
    /\ UNCHANGED <<now, N, settings, store, pc, call, exec, stats, rpcs, locks,
                   result, calls, minted, held>>

\* extend() of using, to its first await or, when context.lock.extend throws
\* at once, through its catch block
Extension(p) ==
    IF locks[p][use[p].lock].expiration < now
    THEN /\ use' = [use EXCEPT ![p] =
                Abort([@ EXCEPT !.timeout = NoTimer],
                      "Cannot extend an already-expired lock")]
         /\ UNCHANGED <<now, N, settings, store, pc, call, exec, stats, rpcs,
                        locks, result, calls, minted, held>>
    ELSE /\ pc[p] = "idle"
         /\ use' = [use EXCEPT ![p].timeout = NoTimer,
                               ![p].extension = "pending"]
         /\ extend(p, use[p].lock, use[p].duration,
                   locks[p][use[p].lock].settings)
         /\ UNCHANGED calls

\* The timer set by queue() fires: extension = extend()
UsingTimer(p) ==
    /\ Quiet
    /\ use[p].timeout # NoTimer
    /\ now >= use[p].timeout
    /\ Extension(p)

\* extend() of using: context.lock.extend(duration) has settled
UsingExtended(p) ==
    /\ use[p].extension = "pending"
    /\ pc[p] = "idle"
    /\ IF result[p].kind = "Lock"
       THEN /\ use' = [use EXCEPT ![p] =
                  Queue([@ EXCEPT !.lock = Len(locks[p]),
                                  !.extensions = @ + 1,
                                  !.extension = "settled"],
                        locks[p][Len(locks[p])])]
            /\ UNCHANGED <<now, N, settings, store, pc, call, exec, stats,
                           rpcs, locks, result, calls, minted, held>>
       ELSE IF locks[p][use[p].lock].expiration > now
       THEN Extension(p)
       ELSE /\ use' = [use EXCEPT ![p] = Abort(@, result[p].message)]
            /\ UNCHANGED <<now, N, settings, store, pc, call, exec, stats,
                           rpcs, locks, result, calls, minted, held>>

\* The routine settles, by returning or by throwing: the finally block
\* clears the timer and waits for the extension in flight, if any.
Routine(p, how) ==
    /\ Quiet
    /\ use[p].phase = "routine"
    /\ use' = [use EXCEPT ![p].phase = "finally", ![p].routine = how,
                          ![p].timeout = NoTimer]
    /\ UNCHANGED <<now, N, settings, store, pc, call, exec, stats, rpcs, locks,
                   result, calls, minted, held>>

\* finally: no extension is in flight (any more); context.lock.release()
UsingRelease(p) ==
    /\ use[p].phase = "finally"
    /\ use[p].extension # "pending"
    /\ pc[p] = "idle"
    /\ use' = [use EXCEPT ![p].phase = "releasing", ![p].releases = @ + 1]
    /\ release(p, use[p].lock, {})
    /\ UNCHANGED calls

\* using settles: with the error of release if it threw, else as the routine
UsingSettled(p) ==
    /\ use[p].phase = "releasing"
    /\ pc[p] = "idle"
    /\ use' = [use EXCEPT ![p].phase = "settled",
                          ![p].outcome = IF result[p].kind = "ExecutionError"
                                         THEN "thrown" ELSE use[p].routine]
    /\ UNCHANGED <<now, N, settings, store, pc, call, exec, stats, rpcs, locks,
                   result, calls, minted, held>>

---------------------------------------------------------------------------
(* Time *)

\* The clock reaches t; the servers drop the keys whose TTL has run out.
Advance(t) ==
    /\ Quiet
    /\ t > now
    /\ now' = t
    /\ store' = [c \in Clients |-> Expire(store[c], t)]
    /\ held' = Watch(held, store')
    /\ UNCHANGED <<N, settings, pc, call, exec, stats, rpcs, locks, result,
                   calls, minted, use>>

\* A millisecond passes.
Tick == now < MaxTime /\ Advance(now + 1)

\* The instants a caller of using waits for: its timer, the expiry of its lock
Instants ==
    UNION {{use[p].timeout} \cup
           {locks[p][i].expiration + 1 : i \in 1..Len(locks[p])} : p \in Callers}

Elapse == \E t \in Instants : t <= Horizon /\ Advance(t)

\* The callers wait, every call settled, until more than the duration of one
\* of their Locks has passed since the attempt that made it.
Outlast ==
    /\ \A p \in Callers : pc[p] = "idle"
    /\ \E p \in Callers, i \in 1..MaxCalls :
          /\ i <= Len(locks[p])
          /\ LET a == locks[p][i].attempts[Len(locks[p][i].attempts)]
                 t == stats[p][a].start + stats[p][a].duration + 1
             IN  t <= Horizon /\ Advance(t)

---------------------------------------------------------------------------
(* The specifications *)

\* A manager of n servers with the settings `given`, and m callers
Start(n, m, given) ==
    /\ now = 1
    /\ N = n
    /\ settings = Constructor(given)
    /\ store = [c \in 1..n |-> [k \in Keys |-> NoEntry]]
    /\ pc = [p \in 1..m |-> "idle"]
    /\ call = [p \in 1..m |-> NoCall]
    /\ exec = [p \in 1..m |-> NoExec]
    /\ stats = [p \in 1..m |-> <<>>]
    /\ rpcs = [p \in 1..m |-> [c \in 1..n |-> <<>>]]
    /\ locks = [p \in 1..m |-> <<>>]
    /\ result = [p \in 1..m |-> NoResult]
    /\ calls = [p \in 1..m |-> 0]
    /\ minted = [p \in 1..m |-> 0]
    /\ use = [p \in 1..m |-> NoUse]
    /\ held = [p \in 1..m |-> {}]

\* The servers and the clients' connections
Network ==
    \/ \E p \in Callers, c \in Clients : Run(p, c)
    \/ \E p \in Callers, c \in Clients : Reply(p, c)
    \/ \E p \in Callers, c \in Clients : Reject(p, c)

\* The continuations of _execute and of acquire
Acquiring ==
    \/ \E p \in Callers : Resolved(p)
    \/ \E p \in Callers : AcquireReturn(p)
    \/ \E p \in Callers : AcquireCatch(p)
    \/ \E p \in Callers : AcquireRethrow(p)

\* The continuations of release and of extend
Settling ==
    \/ \E p \in Callers : ReleaseReturn(p)
    \/ \E p \in Callers : ReleaseThrow(p)
    \/ \E p \in Callers : ExtendReturn(p)
    \/ \E p \in Callers : ExtendThrow(p)

\* One process calls acquire, extend and release on a manager of one or two
\* servers, with one retry; the calls differ in their resources, their
\* durations and their driftFactor.
Given == {<<"retryCount", 1>>, <<"retryDelay", 1>>, <<"retryJitter", 1>>}
Resources == {{"a"}, {"a", "b"}}
Durations == {2, 3, 12}
Partials == {{}, {<<"driftFactor", 25>>}}

Init == \E n \in 1..SoloClients : Start(n, 1, Given)

Next ==
    \/ \E p \in Callers, r \in Resources, d \in Durations, s \in Partials :
          Acquire(p, r, d, s)
    \/ \E p \in Callers, d \in Durations, s \in Partials : Extend(p, d, s)
    \/ \E p \in Callers : Release(p, {})
    \/ \E p \in Callers : Wake(p)
    \/ Network
    \/ Acquiring
    \/ Settling
    \/ Tick

Spec == Init /\ [][Next]_vars

\* Every adapter call settles: the server runs the command and the client
\* gets the reply, or the command fails.  The continuation of a resolved
\* promise runs.
Delivery ==
    /\ \A p \in 1..1, c \in 1..SoloClients :
          /\ WF_vars(c \in Clients /\ Run(p, c))
          /\ WF_vars(c \in Clients /\ (Reply(p, c) \/ Reject(p, c)))
    /\ WF_vars(Acquiring \/ Settling)

\* The same process and managers, the calls differing in their duration
\* only
PlainDurations == {2, 12}

NextPlain ==
    \/ \E p \in Callers, d \in PlainDurations : Acquire(p, {"a"}, d, {})
    \/ \E p \in Callers, d \in PlainDurations : Extend(p, d, {})
    \/ \E p \in Callers : Release(p, {})
    \/ \E p \in Callers : Wake(p)
    \/ Network
    \/ Acquiring
    \/ Settling
    \/ Tick

SpecFair == Init /\ [][NextPlain]_vars /\ Delivery

\* One process calls acquire on a manager of MaxClients servers, with one
\* retry a fixed millisecond after the failed attempt.
TrioGiven == {<<"retryCount", 1>>, <<"retryDelay", 1>>, <<"retryJitter", 0>>}
TrioDurations == {2, 12}

InitTrio == Start(MaxClients, 1, TrioGiven)

NextTrio ==
    \/ \E p \in Callers, r \in Resources, d \in TrioDurations :
          Acquire(p, r, d, {})
    \/ \E p \in Callers : Wake(p)
    \/ Network
    \/ Acquiring
    \/ Tick

SpecTrio == InitTrio /\ [][NextTrio]_vars

\* Two processes contend for one resource on one server, without retries.
DuoDurations == {2, 12}
DuoGiven == {<<"retryCount", 0>>}

InitDuo == Start(1, 2, DuoGiven)

NextDuo ==
    \/ \E p \in Callers : Acquire(p, {"a"}, 12, {})
    \/ \E p \in Callers, d \in DuoDurations : Extend(p, d, {})
    \/ \E p \in Callers : Release(p, {})
    \/ Network
    \/ Acquiring
    \/ Settling
    \/ Tick

SpecDuo == InitDuo /\ [][NextDuo]_vars

\* One process calls using once, on one server, without retries; the lock
\* lasts 100 ms and is extended when it is about to expire.
UsingGiven == {<<"retryCount", 0>>, <<"automaticExtensionThreshold", 0>>}
UsingDurations == {199, 200}
UsingSettings == {{}, {<<"automaticExtensionThreshold", 1>>}}

InitUsing == Start(1, 1, UsingGiven)

NextUsing ==
    \/ \E p \in Callers, d \in UsingDurations, s \in UsingSettings :
          Using(p, {"a"}, d, s)
    \/ \E p \in Callers : UsingAcquired(p)
    \/ \E p \in Callers : UsingTimer(p)
    \/ \E p \in Callers : UsingExtended(p)
    \/ \E p \in Callers, how \in {"returned", "thrown"} : Routine(p, how)
    \/ \E p \in Callers : UsingRelease(p)
    \/ \E p \in Callers : UsingSettled(p)
    \/ Network
    \/ Acquiring
    \/ Settling
    \/ Elapse

SpecUsing == InitUsing /\ [][NextUsing]_vars

\* One process makes up to MaxChain calls on a manager of one or two
\* servers, with one retry at once, over a network that fails up to
\* MaxLosses commands: it acquires, and extends or releases any Lock
\* instance it holds, the invalidated ones too.  A lock of 2 ms expires
\* within the time modelled.
ChainGiven == {<<"retryCount", 1>>, <<"retryDelay", 0>>, <<"retryJitter", 0>>}
ChainDurations == {3, 4, 12}
ChainAcquired == {4, 12}

InitChain == \E n \in 1..SoloClients : Start(n, 1, ChainGiven)

NextChain ==
    \/ \E p \in Callers, d \in ChainAcquired : Acquire(p, {"a"}, d, {})
    \/ \E p \in Callers, i \in 1..MaxChain, d \in ChainDurations :
          ExtendAny(p, i, d, {})
    \/ \E p \in Callers, i \in 1..MaxChain : ReleaseAny(p, i, {})
    \/ \E p \in Callers : Wake(p)
    \/ \E p \in Callers, c \in Clients : Run(p, c)
    \/ \E p \in Callers, c \in Clients : Reply(p, c)
    \/ \E p \in Callers, c \in Clients : RejectUpTo(p, c, MaxLosses)
    \/ Acquiring
    \/ Settling
    \/ Tick

SpecChain == InitChain /\ [][NextChain]_vars

\* One process calls acquire on one server, without retries, over a network
\* that fails up to MaxLosses commands; its durations are -1 ms, 0 ms, 1.5 ms
\* and 6 ms.
AnyDurations == {-2, 0, 3, 12}

InitLossy == Start(1, 1, DuoGiven)

NextLossy ==
    \/ \E p \in Callers, r \in Resources, d \in AnyDurations :
          Acquire(p, r, d, {})
    \/ \E p \in Callers, c \in Clients : Run(p, c)
    \/ \E p \in Callers, c \in Clients : Reply(p, c)
    \/ \E p \in Callers, c \in Clients : RejectUpTo(p, c, MaxLosses)
    \/ Acquiring
    \/ Tick

SpecLossy == InitLossy /\ [][NextLossy]_vars

\* One process makes up to MaxChain calls on one server, without retries.
\* The server may hold the key "b" of a lock of another program, for 1 ms
\* more or for 8.
Foreign ==
    {[k \in Keys |-> NoEntry]} \cup
    {[k \in Keys |-> IF k = "b" THEN [value |-> ForeignValue, expires |-> t]
                                 ELSE NoEntry] : t \in {2, 9}}

InitRound ==
    /\ now = 1
    /\ N = 1
    /\ settings = Constructor(DuoGiven)
    /\ store \in [1..1 -> Foreign]
    /\ pc = [p \in 1..1 |-> "idle"]
    /\ call = [p \in 1..1 |-> NoCall]
    /\ exec = [p \in 1..1 |-> NoExec]
    /\ stats = [p \in 1..1 |-> <<>>]
    /\ rpcs = [p \in 1..1 |-> [c \in 1..1 |-> <<>>]]
    /\ locks = [p \in 1..1 |-> <<>>]
    /\ result = [p \in 1..1 |-> NoResult]
    /\ calls = [p \in 1..1 |-> 0]
    /\ minted = [p \in 1..1 |-> 0]
    /\ use = [p \in 1..1 |-> NoUse]
    /\ held = [p \in 1..1 |-> {}]

NextRound ==
    \/ \E p \in Callers, r \in Resources, d \in ChainAcquired :
          Acquire(p, r, d, {})
    \/ \E p \in Callers, i \in 1..MaxChain, d \in ChainAcquired :
          ExtendAny(p, i, d, {})
    \/ \E p \in Callers, i \in 1..MaxChain : ReleaseAny(p, i, {})
    \/ Network
    \/ Acquiring
    \/ Settling
    \/ Tick

SpecRound == InitRound /\ [][NextRound]_vars

\* Two processes call acquire, without retries and over a network that
\* fails no command, on a manager of one or two servers; time passes
\* between the calls, for as long as a lock lasts.
InitExpiry == \E n \in 1..SoloClients : Start(n, 2, DuoGiven)

NextExpiry ==
    \/ \E p \in Callers, d \in ChainAcquired : Acquire(p, {"a"}, d, {})
    \/ \E p \in Callers, c \in Clients : Run(p, c)
    \/ \E p \in Callers, c \in Clients : Reply(p, c)
    \/ Acquiring
    \/ Outlast

SpecExpiry == InitExpiry /\ [][NextExpiry]_vars

\* One process calls using once, on one server, without retries,
\* over a network that fails up to MaxLosses commands.  Timers fire, commands
\* settle and continuations run in the end; the routine may run for ever.
\* A lock of 101 ms can be extended 1 ms before it expires.
AbortDurations == {200, 202}

NextAbort ==
    \/ \E p \in Callers, d \in AbortDurations, s \in UsingSettings :
          Using(p, {"a"}, d, s)
    \/ \E p \in Callers : UsingAcquired(p)
    \/ \E p \in Callers : UsingTimer(p)
    \/ \E p \in Callers : UsingExtended(p)
    \/ \E p \in Callers, how \in {"returned", "thrown"} : Routine(p, how)
    \/ \E p \in Callers : UsingRelease(p)
    \/ \E p \in Callers : UsingSettled(p)
    \/ \E p \in Callers, c \in Clients : Run(p, c)
    \/ \E p \in Callers, c \in Clients : Reply(p, c)
    \/ \E p \in Callers, c \in Clients : RejectUpTo(p, c, MaxLosses)
    \/ Acquiring
    \/ Settling
    \/ Elapse

EventLoop ==
    /\ WF_vars(UsingTimer(1))
    /\ WF_vars(UsingExtended(1))
    /\ WF_vars(Run(1, 1))
    /\ WF_vars(Reply(1, 1) \/ RejectUpTo(1, 1, MaxLosses))
    /\ WF_vars(Acquiring \/ Settling)

SpecAbort == InitUsing /\ [][NextAbort]_vars /\ EventLoop

\* One process calls acquire, extend and release on one server, through a
\* manager constructed without retries and with any db from -1.5 to FarDb
\* halves, or with none.
DbGiven == {DuoGiven} \cup {DuoGiven \cup {<<"db", h>>} : h \in (-3)..FarDb}

InitDb == \E g \in DbGiven : Start(1, 1, g)

SpecDb == InitDb /\ [][NextDuo]_vars

\* One process calls acquire, extend and release on a manager of one or two
\* servers, without retries.  A command may fail, and a client may hand out
\* a reply that is no number.  An acquire of 0 ms ends in an error reply.
AdapterDurations == {0, 12}

InitAdapter == \E n \in 1..SoloClients : Start(n, 1, DuoGiven)

NextAdapter ==
    \/ \E p \in Callers, r \in Resources, d \in AdapterDurations :
          Acquire(p, r, d, {})
    \/ \E p \in Callers : Extend(p, 12, {})
    \/ \E p \in Callers : Release(p, {})
    \/ \E p \in Callers, c \in Clients : Run(p, c)
    \/ \E p \in Callers, c \in Clients : Reply(p, c)
    \/ \E p \in Callers, c \in Clients : Mistyped(p, c)
    \/ \E p \in Callers, c \in Clients : Reject(p, c)
    \/ Acquiring
    \/ Settling
    \/ Tick

SpecAdapter == InitAdapter /\ [][NextAdapter]_vars

\* One process calls acquire and release on a manager of MaxClients
\* servers, without retries and within one millisecond, over a network that
\* fails up to MaxLosses commands; every adapter call settles and every
\* continuation runs in the end.
InitVotes == Start(MaxClients, 1, DuoGiven)

NextVotes ==
    \/ \E p \in Callers : Acquire(p, {"a"}, 12, {})
    \/ \E p \in Callers : Release(p, {})
    \/ \E p \in Callers, c \in Clients : Run(p, c)
    \/ \E p \in Callers, c \in Clients : Reply(p, c)
    \/ \E p \in Callers, c \in Clients : RejectUpTo(p, c, MaxLosses)
    \/ Acquiring
    \/ \E p \in Callers : ReleaseReturn(p)
    \/ \E p \in Callers : ReleaseThrow(p)

DeliveryVotes ==
    /\ \A c \in 1..MaxClients :
          /\ WF_vars(Run(1, c))
          /\ WF_vars(Reply(1, c) \/ RejectUpTo(1, c, MaxLosses))
    /\ WF_vars(Acquiring \/ ReleaseReturn(1) \/ ReleaseThrow(1))

SpecVotes == InitVotes /\ [][NextVotes]_vars /\ DeliveryVotes

\* One process calls acquire, extend and release on a manager of one or two
\* servers that retries for ever, at once or a millisecond later; a call may
\* ask for no retry.  The process starts MaxHandles attempts at most.
ForeverGiven == {<<"retryCount", -1>>, <<"retryDelay", 1>>, <<"retryJitter", 1>>}
ForeverPartials == {{}, {<<"retryCount", 0>>}}

InitForever == \E n \in 1..SoloClients : Start(n, 1, ForeverGiven)

NextForever ==
    \/ \E p \in Callers, d \in PlainDurations, s \in ForeverPartials :
          Acquire(p, {"a"}, d, s)
    \/ \E p \in Callers, s \in ForeverPartials : Extend(p, 12, s)
    \/ \E p \in Callers, s \in ForeverPartials : Release(p, s)
    \/ \E p \in Callers : WakeUpTo(p)
    \/ Network
    \/ Acquiring
    \/ Settling
    \/ Tick

SpecForever == InitForever /\ [][NextForever]_vars

\* One process calls acquire, extend and release on a manager of one or two
\* servers, without retries; a call may ask for a retryCount of -2.
NegativePartials == {{}, {<<"retryCount", -2>>}}

InitNegative == \E n \in 1..SoloClients : Start(n, 1, DuoGiven)

NextNegative ==
    \/ \E p \in Callers, s \in NegativePartials : Acquire(p, {"a"}, 12, s)
    \/ \E p \in Callers, s \in NegativePartials : Extend(p, 12, s)
    \/ \E p \in Callers, s \in NegativePartials : Release(p, s)
    \/ Network
    \/ Acquiring
    \/ Settling
    \/ Tick

SpecNegative == InitNegative /\ [][NextNegative]_vars

\* One process calls acquire on a manager of MaxClients servers, with one
\* retry a millisecond after the failed attempt; one of its adapter calls
\* may be rejected.  A process that has ended gets no reply any more.
NextFatal ==
    \/ \E p \in Callers : Acquire(p, {"a"}, 12, {})
    \/ \E p \in Callers : Alive(p) /\ Wake(p)
    \/ \E p \in Callers, c \in Clients : Run(p, c)
    \/ \E p \in Callers, c \in Clients : Alive(p) /\ Reply(p, c)
    \/ \E p \in Callers, c \in Clients : AdapterRejects(p, c)
    \/ Acquiring
    \/ Tick

SpecFatal == InitTrio /\ [][NextFatal]_vars

\* One process acquires a lock of 2 ms or of 6 ms on a manager of one to
\* MaxClients servers, without retries, and extends it, for 1 ms or for 6,
\* or releases it; the network fails up to MaxRejects commands.
LeaseAcquired == {4, 12}
LeaseExtended == {2, 12}

InitLease == \E n \in 1..MaxClients : Start(n, 1, DuoGiven)

NextLease ==
    \/ \E p \in Callers, d \in LeaseAcquired, s \in Partials :
          Acquire(p, {"a"}, d, s)
    \/ \E p \in Callers, d \in LeaseExtended : Extend(p, d, {})
    \/ \E p \in Callers : Release(p, {})
    \/ Network
    \/ Acquiring
    \/ Settling
    \/ Tick

SpecLease == InitLease /\ [][NextLease]_vars

\* One process calls using once, for 101 ms and without retries, on a manager
\* of one server or of MaxClients: the routine may end while an extension is
\* in flight, and a command may be in flight still when its operation has
\* resolved.  The network fails up to MaxRejects commands of the manager of
\* one server, whose extension then fails and is tried again at once.
ExitDuration == 202

InitExit == \E n \in {1, MaxClients} : Start(n, 1, UsingGiven)

NextExit ==
    \/ \E p \in Callers, s \in UsingSettings : Using(p, {"a"}, ExitDuration, s)
    \/ \E p \in Callers : UsingAcquired(p)
    \/ \E p \in Callers : UsingTimer(p)
    \/ \E p \in Callers : UsingExtended(p)
    \/ \E p \in Callers, how \in {"returned", "thrown"} : Routine(p, how)
    \/ \E p \in Callers : UsingRelease(p)
    \/ \E p \in Callers : UsingSettled(p)
    \/ \E p \in Callers, c \in Clients : Run(p, c)
    \/ \E p \in Callers, c \in Clients : Reply(p, c)
    \/ \E p \in Callers, c \in Clients : N = 1 /\ Reject(p, c)
    \/ Acquiring
    \/ Settling
    \/ Elapse

SpecExit == InitExit /\ [][NextExit]_vars

---------------------------------------------------------------------------
(* Properties *)

\* The ExecutionStats of attempt a of caller p
Stats(p, a) == stats[p][a]

\* The attempts of a list of stats handles
Handles(attempts) == {attempts[k] : k \in 1..Len(attempts)}

\* The Lock caller p was handed last
Latest(p) == locks[p][Len(locks[p])]

\* Caller p is back from `method` with a result of kind `kind`.
Ended(p, method, kind) ==
    pc[p] = "idle" /\ result[p].method = method /\ result[p].kind = kind

\* r is the integer nearest to num / den, a tie going up.
Nearest(r, num, den) ==
    2 * den * r <= 2 * num + den /\ 2 * num + den < 2 * den * (r + 1)

\* The driftFactor in force for a Lock made with the per-call settings
\* `partial`, in hundredths
InForce(partial) ==
    IF \E e \in partial : e[1] = "driftFactor"
    THEN (CHOOSE e \in partial : e[1] = "driftFactor")[2]
    ELSE settings.driftFactor

\* `lock` expires at the start of attempt a of p, plus the duration of that
\* attempt, minus the rounded drift and 2 ms.
Drifted(p, lock, a) ==
    \E r \in 0..(InForce(lock.settings) * Stats(p, a).duration) :
        /\ Nearest(r, InForce(lock.settings) * Stats(p, a).duration, 100)
        /\ lock.expiration = Stats(p, a).start + Stats(p, a).duration - (r + 2)

\* C1: at no instant do two Locks with different values and a resource in
\* common both have an expiration later than now.
MutualExclusion ==
    \A p \in Callers, q \in Callers :
        \A i \in 1..Len(locks[p]), j \in 1..Len(locks[q]) :
            (/\ locks[p][i].value # locks[q][j].value
             /\ locks[p][i].resources \cap locks[q][j].resources # {})
            => ~(locks[p][i].expiration > now /\ locks[q][j].expiration > now)

\* C2: an attempt of acquire resolves for exactly when a strict majority of
\* the N servers voted for in that attempt; acquire returns a Lock only
\* through such an attempt, the last of at most retryCount + 1, and fails only
\* when each of its attempts resolved against, none with a majority for.
QuorumDecides ==
    \A p \in Callers :
        /\ \A a \in 1..Len(stats[p]) :
              Stats(p, a).script = "acquireLock" =>
                 /\ Stats(p, a).vote = "for" <=>
                       2 * Cardinality(Stats(p, a).votesFor) > N
                 /\ Stats(p, a).vote = "against" =>
                       2 * Cardinality(Stats(p, a).votesFor) < N
        /\ Ended(p, "acquire", "Lock") =>
              /\ Len(result[p].attempts) \in 1..(settings.retryCount + 1)
              /\ \A k \in 1..Len(result[p].attempts) :
                    Stats(p, result[p].attempts[k]).vote =
                       IF k = Len(result[p].attempts) THEN "for" ELSE "against"
        /\ Ended(p, "acquire", "ExecutionError") =>
              /\ Len(result[p].attempts) = settings.retryCount + 1
              /\ \A a \in Handles(result[p].attempts) :
                    /\ Stats(p, a).vote = "against"
                    /\ 2 * Cardinality(Stats(p, a).votesFor) < N
        /\ call[p].method = "acquire" =>
              \A k \in 1..Len(exec[p].attempts) :
                  \/ Stats(p, exec[p].attempts[k]).vote = "against"
                  \/ k = Len(exec[p].attempts) /\ pc[p] = "returned"

\* A Lock obtained with two of three votes, then an acquire that failed
\* although one server voted for in one of its attempts.
QuorumDecidesWitness ==
    \E p \in Callers :
        /\ N = 3
        /\ Len(locks[p]) = 1
        /\ Cardinality(Stats(p, Latest(p).attempts[1]).votesFor) = 2
        /\ Stats(p, Latest(p).attempts[1]).done
        /\ Ended(p, "acquire", "ExecutionError")
        /\ \E a \in Handles(result[p].attempts) :
              Cardinality(Stats(p, a).votesFor) = 1

\* C3: once all N adapter calls of an attempt have settled as votes, the
\* attempt has resolved, for or against.
EveryAttemptResolves ==
    \A p \in Callers : \A a \in 1..Len(stats[p]) :
        Cardinality(Stats(p, a).votesFor)
           + Cardinality(Stats(p, a).votesAgainst) = N
        => Stats(p, a).vote # "none"

\* An acquire, extend or release that _execute fails has made exactly
\* retryCount + 1 attempts, each resolved against; its error carries the
\* stats handle of each of them, and each handle is fulfilled once the
\* caller's adapter calls have all settled.
FailsAfterEveryAttempt ==
    \A p \in Callers :
        /\ (pc[p] = "thrown" /\ call[p].method # "cleanup") =>
              Len(exec[p].attempts) = settings.retryCount + 1
        /\ (/\ pc[p] = "idle"
            /\ result[p].kind = "ExecutionError"
            /\ result[p].message = "unable to achieve a quorum") =>
              /\ Len(result[p].attempts) = settings.retryCount + 1
              /\ Cardinality(Handles(result[p].attempts)) =
                    settings.retryCount + 1
              /\ \A a \in Handles(result[p].attempts) :
                    /\ a \in 1..Len(stats[p])
                    /\ Stats(p, a).vote = "against"
                    /\ Stats(p, a).script =
                          CASE result[p].method = "acquire" -> "acquireLock"
                            [] result[p].method = "extend" -> "extendLock"
                            [] result[p].method = "release" -> "releaseLock"
                    /\ (\A c \in Clients : rpcs[p][c] = <<>>) =>
                          Stats(p, a).done

\* The stats handle of every attempt a caller starts is fulfilled in the end.
HandlesFulfil ==
    \A a \in 1..MaxHandles :
        (Len(stats[1]) >= a) ~> (Len(stats[1]) >= a /\ stats[1][a].done)

\* C4: when retryCount is finite and every attempt of an acquire, extend or
\* release resolves against, the call fails after exactly retryCount + 1
\* attempts, with an error that carries the stats handle of each; and each
\* handle is fulfilled in the end.
FailsAndFulfils == []FailsAfterEveryAttempt /\ HandlesFulfil

\* A release that failed after two attempts, both fulfilled.
FailsAfterEveryAttemptWitness ==
    \E p \in Callers :
        /\ Ended(p, "release", "ExecutionError")
        /\ Len(result[p].attempts) = 2
        /\ \A a \in Handles(result[p].attempts) : Stats(p, a).done

\* The attempts of the acquire caller p is in, or is back from
AcquireAttempts(p) ==
    IF call[p].method = "acquire"
    THEN {a \in 1..Len(stats[p]) :
             /\ Stats(p, a).script = "acquireLock"
             /\ Stats(p, a).value = call[p].value}
    ELSE IF pc[p] = "idle" /\ result[p].method = "acquire"
    THEN Handles(result[p].attempts)
    ELSE {}

\* C5, every against-vote being one of ResourceLocked: while keys of another
\* lock stay on a majority of the servers from the call of an acquire naming
\* one of them on, the acquire fails, and each against-vote of those servers
\* carries a ResourceLockedError.
ContentionLocked ==
    \A p \in Callers :
        2 * Cardinality(held[p]) > N =>
            /\ ~Ended(p, "acquire", "Lock")
            /\ ~(call[p].method = "acquire" /\ pc[p] = "returned")
            /\ \A a \in AcquireAttempts(p), c \in held[p] :
                  /\ c \notin Stats(p, a).votesFor
                  /\ \A e \in Stats(p, a).votesAgainst :
                        e[1] = c => e[2] = "ResourceLockedError"

\* C5: while keys of another lock stay on a majority of the servers from
\* the call of an acquire naming one of them on, the acquire does not return
\* a Lock; none of those servers votes for, and the against-vote of each
\* carries a ResourceLockedError when the server replied, the error of the
\* adapter when the command failed.
ContentionFails ==
    \A p \in Callers :
        2 * Cardinality(held[p]) > N =>
            /\ ~Ended(p, "acquire", "Lock")
            /\ ~(call[p].method = "acquire" /\ pc[p] = "returned")
            /\ \A a \in AcquireAttempts(p), c \in held[p] :
                  /\ c \notin Stats(p, a).votesFor
                  /\ \A e \in Stats(p, a).votesAgainst :
                        e[1] = c => e[2] \in {"ResourceLockedError", "Error"}
            /\ (pc[p] = "idle" /\ result[p].method = "acquire") =>
                  result[p].kind \in {"ExecutionError", "Error"}

\* Of three servers two hold the key of the caller's live Lock, the command
\* to the third was lost.  The caller is back from a second acquire, of other
\* resources that name that key: the two voted against in both attempts, each
\* with a ResourceLockedError, the third voted for at least once, and the
\* acquire failed.
ContentionFailsWitness ==
    \E p \in Callers :
        /\ N = 3
        /\ Cardinality(held[p]) = 2
        /\ Len(locks[p]) = 1
        /\ Latest(p).expiration > now
        /\ Ended(p, "acquire", "ExecutionError")
        /\ Len(result[p].attempts) = 2
        /\ \A a \in Handles(result[p].attempts) :
              /\ Stats(p, a).keys # Latest(p).resources
              /\ Stats(p, a).keys \cap Latest(p).resources # {}
              /\ {<<c, "ResourceLockedError">> : c \in held[p]}
                    \subseteq Stats(p, a).votesAgainst
        /\ \E a \in Handles(result[p].attempts) :
              Stats(p, a).votesFor = Clients \ held[p]

\* C6: a release of a lock whose keys are gone from the servers does not
\* raise: release fails only through votes that carry an error of the
\* adapter, never through a server that deleted fewer keys than requested.
ReleaseIdempotent ==
    \A p \in Callers :
        Ended(p, "release", "ExecutionError") =>
            \A a \in Handles(result[p].attempts) :
                \A e \in Stats(p, a).votesAgainst :
                    e[2] # "ResourceLockedError"

\* C7: once using has settled after a successful acquire, release has been
\* called exactly once, no extension timer is pending, and the signal has
\* not been aborted since using settled.
UsingCleansUp ==
    \A p \in Callers :
        (use[p].phase = "settled" /\ use[p].lock # 0) =>
            /\ use[p].releases = 1
            /\ use[p].timeout = NoTimer
            /\ ~use[p].abortedLate

\* C8: the Lock acquire returns expires at the start of its decisive attempt,
\* the last one, plus the duration, minus round(driftFactor * duration) + 2,
\* with the per-call driftFactor when given and the manager's otherwise;
\* hence no later than that start plus the duration minus 2.
AcquireExpiration ==
    \A p \in Callers :
        Ended(p, "acquire", "Lock") =>
            LET a == Latest(p).attempts[Len(Latest(p).attempts)]
            IN  /\ Stats(p, a).vote = "for"
                /\ Stats(p, a).script = "acquireLock"
                /\ Drifted(p, Latest(p), a)
                /\ Latest(p).expiration <=
                      Stats(p, a).start + Stats(p, a).duration - 2

\* A Lock of 6 ms acquired at the second attempt, started a millisecond
\* after the first, with a per-call driftFactor of 0.25: the drift is 4.
AcquireExpirationWitness ==
    \E p \in Callers :
        /\ Ended(p, "acquire", "Lock")
        /\ Len(Latest(p).attempts) = 2
        /\ Stats(p, Latest(p).attempts[1]).start = 1
        /\ Stats(p, Latest(p).attempts[2]).start = 2
        /\ Stats(p, Latest(p).attempts[2]).duration = 6
        /\ <<"driftFactor", 25>> \in Latest(p).settings
        /\ Latest(p).expiration = 4

\* C9: a successful extend leaves the old Lock with expiration 0 and returns
\* a new Lock with the same resources and value, whose attempts are those of
\* the extend only and whose expiration is computed from the start of the
\* extend's decisive attempt, the given duration and the drift.
ExtendReplaces ==
    \A p \in Callers :
        Ended(p, "extend", "Lock") =>
            /\ Len(locks[p]) >= 2
            /\ LET new == locks[p][Len(locks[p])]
                   old == locks[p][Len(locks[p]) - 1]
                   a == result[p].attempts[Len(result[p].attempts)]
               IN  /\ old.expiration = 0
                   /\ new.resources = old.resources
                   /\ new.value = old.value
                   /\ new.attempts = result[p].attempts
                   /\ Handles(new.attempts) \cap Handles(old.attempts) = {}
                   /\ \A b \in Handles(new.attempts) :
                         Stats(p, b).script = "extendLock"
                   /\ Stats(p, a).vote = "for"
                   /\ Drifted(p, new, a)

\* A Lock of 6 ms extended, at the second attempt of the extend, to one of
\* 6 ms from then on.
ExtendReplacesWitness ==
    \E p \in Callers :
        /\ Ended(p, "extend", "Lock")
        /\ Len(Latest(p).attempts) = 2
        /\ Stats(p, Latest(p).attempts[2]).start = 2
        /\ Latest(p).expiration = 6
        /\ locks[p][Len(locks[p]) - 1].expiration = 0

ExtendRefused(p) ==
    /\ pc'[p] = "idle"
    /\ result'[p] = [kind |-> "ExecutionError", method |-> "extend",
                      attempts |-> <<>>, start |-> 0,
                      message |-> "Cannot extend an already-expired lock"]
    /\ rpcs' = rpcs
    /\ stats' = stats
    /\ store' = store
    /\ locks' = locks

\* C11, for every duration: an extend of a Lock whose expiration is earlier
\* than now fails with an ExecutionError that carries an empty list of
\* attempts, and sends no command to any server.
ExpiredExtendFails ==
    [][\A p \in Callers, i \in 1..MaxChain, d \in ChainDurations :
          (ExtendAny(p, i, d, {}) /\ locks[p][i].expiration < now)
             => ExtendRefused(p)]_vars

\* C11: an extend, for an integer duration, of a Lock whose expiration is
\* earlier than now (expired, released, or invalidated by an earlier
\* successful extend) fails with an ExecutionError that carries an empty list
\* of attempts, and sends no command to any server.
ExpiredExtendRefused ==
    [][\A p \in Callers, i \in 1..MaxChain, d \in ChainDurations :
          (/\ ExtendAny(p, i, d, {})
           /\ locks[p][i].expiration < now
           /\ IsInteger(d))
             => ExtendRefused(p)]_vars

\* The caller acquired a lock and extended it; the Lock it got is still
\* valid, and its third call, an extend of the first Lock, which the
\* successful extend had invalidated, was refused without an attempt.
ExpiredExtendRefusedWitness ==
    \E p \in Callers :
        /\ calls[p] = 3
        /\ Len(locks[p]) = 2
        /\ locks[p][1].expiration = 0
        /\ locks[p][2].expiration >= now
        /\ Len(stats[p]) = 2
        /\ Ended(p, "extend", "ExecutionError")
        /\ result[p].attempts = <<>>
        /\ result[p].message = "Cannot extend an already-expired lock"

\* The release of Lock i of caller p begins: the expiration of the Lock is 0
\* in the state in which the first release command is on its way.
ReleaseInvalidates ==
    \A p \in Callers, i \in 1..MaxChain :
        ReleaseAny(p, i, {}) =>
            /\ locks'[p][i].expiration = 0
            /\ call'[p].method = "release"
            /\ \A c \in Clients : Len(rpcs[p][c]) < Len(rpcs'[p][c])

\* A Lock whose expiration is 0 keeps it, and every extend of it fails at
\* once, without a command.
InvalidStays ==
    \A p \in Callers, i \in 1..MaxChain :
        (i <= Len(locks[p]) /\ locks[p][i].expiration = 0) =>
            /\ locks'[p][i].expiration = 0
            /\ \A d \in ChainDurations :
                  ExtendAny(p, i, d, {}) =>
                     /\ pc'[p] = "idle"
                     /\ result'[p].method = "extend"
                     /\ result'[p].kind \in {"ExecutionError", "Error"}
                     /\ result'[p].attempts = <<>>
                     /\ rpcs' = rpcs

\* A release in progress is of a Lock whose expiration is 0.  A release
\* returns a result only through an attempt in which a majority of the
\* servers voted for, and throws ExecutionError after retryCount + 1 attempts
\* that each resolved against.
ReleaseSurfaces ==
    \A p \in Callers :
        /\ call[p].method = "release" =>
              locks[p][call[p].lock].expiration = 0
        /\ Ended(p, "release", "ExecutionResult") =>
              /\ result[p].attempts # <<>>
              /\ LET a == result[p].attempts[Len(result[p].attempts)]
                 IN  /\ Stats(p, a).vote = "for"
                     /\ 2 * Cardinality(Stats(p, a).votesFor) > N
        /\ Ended(p, "release", "ExecutionError") =>
              /\ Len(result[p].attempts) = settings.retryCount + 1
              /\ \A a \in Handles(result[p].attempts) :
                    /\ Stats(p, a).script = "releaseLock"
                    /\ Stats(p, a).vote = "against"
                    /\ 2 * Cardinality(Stats(p, a).votesFor) < N + 1

\* C12: release sets the expiration of the Lock to 0 before any release
\* command is sent and whatever the outcome; from then on every extend of
\* that Lock instance fails; release throws ExecutionError when no attempt
\* within the retry budget gets a majority of for votes.
ReleaseInvalidatesFirst ==
    /\ [][ReleaseInvalidates /\ InvalidStays]_vars
    /\ []ReleaseSurfaces

\* The caller acquired a lock and released it; the release failed after two
\* attempts; the extend of the released Lock that followed was refused.
ReleaseInvalidatesFirstWitness ==
    \E p \in Callers :
        /\ calls[p] = 3
        /\ Len(locks[p]) = 1
        /\ locks[p][1].expiration = 0
        /\ Len(stats[p]) = 3
        /\ Stats(p, 2).script = "releaseLock"
        /\ Stats(p, 2).vote = "against"
        /\ Stats(p, 3).vote = "against"
        /\ Ended(p, "extend", "ExecutionError")
        /\ result[p].attempts = <<>>

\* The attempts of caller p that ran the release script with `value`
Releases(p, value) ==
    {a \in 1..Len(stats[p]) :
        Stats(p, a).script = "releaseLock" /\ Stats(p, a).value = value}

\* C13: an acquire that has used up its attempts reports the ExecutionError
\* of those attempts, after exactly one attempt of release, with the keys
\* and the value of the failed acquire, has resolved, for or against.
SingleCleanup ==
    \A p \in Callers :
        Ended(p, "acquire", "ExecutionError") =>
            /\ Len(result[p].attempts) = settings.retryCount + 1
            /\ result[p].message = "unable to achieve a quorum"
            /\ LET last == result[p].attempts[Len(result[p].attempts)]
                   value == Stats(p, last).value
               IN  /\ \A a \in Handles(result[p].attempts) :
                         /\ Stats(p, a).script = "acquireLock"
                         /\ Stats(p, a).value = value
                         /\ Stats(p, a).vote = "against"
                   /\ Releases(p, value) = {last + 1}
                   /\ Stats(p, last + 1).keys = Stats(p, last).keys
                   /\ Stats(p, last + 1).vote # "none"

\* An acquire has failed after two attempts, and the one release that
\* followed resolved against.
SingleCleanupWitness ==
    \E p \in Callers :
        /\ Ended(p, "acquire", "ExecutionError")
        /\ Len(result[p].attempts) = 2
        /\ LET last == result[p].attempts[2]
           IN  /\ Len(stats[p]) = last + 1
               /\ Stats(p, last + 1).script = "releaseLock"
               /\ Stats(p, last + 1).vote = "against"

\* The value of the acquire caller p is back from with an ExecutionError
Failed(p) == Stats(p, result[p].attempts[1]).value

\* Every command caller p sent has settled.
AllSettled(p) == \A c \in Clients : rpcs[p][c] = <<>>

\* C14: once an acquire has failed and every command it sent has settled, the
\* commands of its cleanup release among them, no server holds a key under
\* the value of the failed acquire.
NothingLeft ==
    \A p \in Callers :
        (Ended(p, "acquire", "ExecutionError") /\ AllSettled(p)) =>
            \A c \in Clients, k \in Keys : store[c][k].value # Failed(p)

\* The keys the server behind client c holds under `value`
Under(c, value) == {k \in Keys : store[c][k].value = value}

\* On this step the server behind client c runs a command of caller p that
\* is not an extend, and leaves every key of another value as it is.
SparesOthers(p, c) ==
    LET st == Stats(p, rpcs[p][c][NextToRun(p, c)].attempt)
    IN  st.script \in {"acquireLock", "releaseLock"} =>
           \A k \in Keys :
               store[c][k].value \notin {NoValue, st.value} =>
                   store'[c][k] = store[c][k]

\* On every server the keys under the value of an acquire are all the keys
\* the acquire names, or none.
AllOrNothing ==
    \A p \in Callers, a \in 1..MaxHandles, c \in Clients :
        (a <= Len(stats[p]) /\ Stats(p, a).script = "acquireLock") =>
            Under(c, Stats(p, a).value) \in {{}, Stats(p, a).keys}

\* C15: on each server an acquire creates all the keys it names or none, so
\* that an acquire that fails because one of its keys is held leaves none of
\* the others set; neither an acquire nor a release changes or deletes a key
\* held under the value of another lock.
PerServerAllOrNothing ==
    /\ []AllOrNothing
    /\ [][\A p \in Callers, c \in Clients :
            Run(p, c) => SparesOthers(p, c)]_vars

\* The caller holds a live Lock on "a", whose key is on every server, and is
\* back from a failed acquire of "a" and "b", every command of which has
\* settled: no server has a key "b".
PerServerAllOrNothingWitness ==
    \E p \in Callers :
        /\ Len(locks[p]) = 1
        /\ Latest(p).resources = {"a"}
        /\ Latest(p).expiration > now
        /\ Ended(p, "acquire", "ExecutionError")
        /\ AllSettled(p)
        /\ \A a \in Handles(result[p].attempts) :
              Stats(p, a).keys = {"a", "b"}
        /\ \A c \in Clients :
              /\ store[c]["a"].value = Latest(p).value
              /\ store[c]["b"] = NoEntry

\* C16: for every duration that is not an integer number of milliseconds of
\* at least 1, acquire fails at once with the Error for an invalid duration,
\* and sends no command to any server.
InvalidDurationRefused ==
    [][\A p \in Callers, r \in Resources, d \in AnyDurations :
          (Acquire(p, r, d, {}) /\ (~IsInteger(d) \/ Ms(d) < 1)) =>
              /\ pc'[p] = "idle"
              /\ result'[p].method = "acquire"
              /\ result'[p].kind = "Error"
              /\ rpcs' = rpcs
              /\ stats' = stats]_vars

\* The automaticExtensionThreshold in force for a call of using with the
\* per-call settings `partial`
Threshold(partial) ==
    IF \E e \in partial : e[1] = "automaticExtensionThreshold"
    THEN (CHOOSE e \in partial : e[1] = "automaticExtensionThreshold")[2]
    ELSE settings.automaticExtensionThreshold

\* The call of using that this step begins throws at once; no lock value is
\* drawn, no command is sent and the routine is not called.
UsingRefused(p) ==
    /\ pc'[p] = "idle"
    /\ result'[p].method = "using"
    /\ result'[p].kind = "Error"
    /\ use'[p].phase = "settled"
    /\ use'[p].outcome = "thrown"
    /\ use'[p].routine = "none"
    /\ minted' = minted
    /\ rpcs' = rpcs
    /\ stats' = stats

\* C17: using throws the Error for an invalid argument before it acquires
\* anything, its routine never called, whenever the duration is not an
\* integer or the automaticExtensionThreshold in force (of the call, else of
\* the manager) is greater than the duration minus 100 ms.
UsingChecksFirst ==
    /\ [][\A p \in Callers, d \in UsingDurations, s \in UsingSettings :
            (/\ Using(p, {"a"}, d, s)
             /\ (~IsInteger(d) \/ Threshold(s) > Ms(d) - 100))
                => UsingRefused(p)]_vars
    /\ [](\A p \in Callers :
            (use[p].phase = "settled" /\ result[p].method = "using") =>
                /\ use[p].routine = "none"
                /\ stats[p] = <<>>
                /\ AllSettled(p))

\* A call of using for 100 ms with a threshold of 1 ms was refused: the
\* threshold is more than the duration less 100 ms.
UsingChecksFirstWitness ==
    \E p \in Callers :
        /\ use[p].phase = "settled"
        /\ use[p].routine = "none"
        /\ Ended(p, "using", "Error")
        /\ result[p].message = "duration too short"
        /\ stats[p] = <<>>

\* A key of another program's lock stays as it is until its TTL runs out,
\* and none appears.
ForeignKept ==
    \A c \in Clients, k \in Keys :
        /\ store[c][k].value = ForeignValue =>
              \/ store'[c][k] = store[c][k]
              \/ store'[c][k] = NoEntry /\ store[c][k].expires <= now'
        /\ store'[c][k].value = ForeignValue => store[c][k] = store'[c][k]

\* Caller p drew one lock value, acquired with it, and is back from a
\* release that the server voted for.
RoundTripped(p) ==
    /\ minted[p] = 1
    /\ Len(locks[p]) > 0
    /\ Ended(p, "release", "ExecutionResult")

\* C18: with one server and no other operation under way, once a lock that
\* was acquired, of one key or of two, has been released, the keyspace of
\* the server is what it was before the acquire: it holds no key of the
\* caller, and the keys it held before are as they were, but for those
\* whose TTL ran out.
RoundTrip ==
    /\ [][ForeignKept]_vars
    /\ [](\A p \in Callers :
            (N = 1 /\ RoundTripped(p)) =>
                \A k \in Keys : store[1][k].value \in {NoValue, ForeignValue})

\* The caller acquired "a" on a server that holds "b" for another program,
\* and released it: "a" is gone, "b" is still there.
RoundTripWitness ==
    \E p \in Callers :
        /\ N = 1
        /\ RoundTripped(p)
        /\ Latest(p).resources = {"a"}
        /\ Stats(p, result[p].attempts[1]).votesFor = {1}
        /\ store[1]["a"] = NoEntry
        /\ store[1]["b"].value = ForeignValue
        /\ store[1]["b"].expires > now

\* The caller acquired "a" and "b" and released them: both are gone.
RoundTripPair ==
    \E p \in Callers :
        /\ RoundTripped(p)
        /\ Latest(p).resources = {"a", "b"}
        /\ store[1] = [k \in Keys |-> NoEntry]

\* Every acquire of a key of `keys` under another value than `value` began
\* more than its duration before time t.
Outlasted(keys, value, t) ==
    \A p \in Callers, a \in 1..MaxHandles :
        (/\ a <= Len(stats[p])
         /\ Stats(p, a).script = "acquireLock"
         /\ Stats(p, a).value # value
         /\ Stats(p, a).keys \cap keys # {})
            => Stats(p, a).start + Stats(p, a).duration < t

\* C19: a lock that is neither extended nor released expires on its own:
\* an acquire that begins more than the duration of every lock on its
\* resources after that lock was acquired succeeds, whoever calls it, and
\* the key holds the value of the new lock on the servers that voted for.
LocksExpire ==
    \A q \in Callers :
        (/\ pc[q] = "idle"
         /\ result[q].method = "acquire"
         /\ result[q].kind \in {"Lock", "ExecutionError"}
         /\ LET a == result[q].attempts[1]
            IN  Outlasted(Stats(q, a).keys, Stats(q, a).value, Stats(q, a).start))
            => /\ result[q].kind = "Lock"
               /\ LET a == result[q].attempts[1]
                  IN  now = Stats(q, a).start =>
                        \A c \in Stats(q, a).votesFor, k \in Stats(q, a).keys :
                            store[c][k].value = Stats(q, a).value

\* The first process acquired a lock of 2 ms at time 1; at time 4 the
\* second process has acquired the same resource on every server.
LocksExpireWitness ==
    /\ N = 2
    /\ now = 4
    /\ Len(locks[1]) = 1
    /\ Stats(1, 1).start = 1
    /\ Stats(1, 1).duration = 2
    /\ Len(stats[1]) = 1
    /\ Len(stats[2]) = 1
    /\ Ended(2, "acquire", "Lock")
    /\ Stats(2, 1).start = 4
    /\ \A c \in Clients : store[c]["a"].value = Latest(2).value

\* Every vote of every attempt caller p has started was a vote for.
AllFor(p) ==
    \A a \in 1..MaxHandles :
        a <= Len(stats[p]) => Stats(p, a).votesAgainst = {}

\* The routine of caller p is running under a Lock of `using`.
Running(p) == use[p].phase = "routine" /\ use[p].lock > 0

\* The timer of an extension is pending although the Lock it is to extend
\* has expired: the timer is late.
Late(p) ==
    /\ Running(p)
    /\ use[p].timeout # NoTimer
    /\ locks[p][use[p].lock].expiration < now

\* C20, whenever the timers fire: when every server votes for in every
\* attempt, then while the routine runs the signal is not aborted and the
\* key is on the server under the value of the lock; once the routine has
\* run for longer than the duration an extension has succeeded; and once
\* using has settled the key is gone.
ScopedExtension ==
    \A p \in Callers :
        AllFor(p) =>
            /\ Running(p) =>
                  /\ ~use[p].aborted
                  /\ \A c \in Clients :
                        store[c]["a"].value = locks[p][use[p].lock].value
                  /\ now > Stats(p, 1).start + Ms(use[p].duration) =>
                        use[p].extensions >= 1
            /\ (use[p].phase = "settled" /\ use[p].lock > 0) =>
                  \A c \in Clients : store[c]["a"] = NoEntry

Punctual == \A p \in Callers : ~Late(p)

\* C20: when every server votes for in every attempt and no timer of an
\* extension fires after the Lock it is to extend has expired, then while
\* the routine runs the signal is not aborted and the key is on the server
\* under the value of the lock; once the routine has run for longer than
\* the duration an extension has succeeded; and once using has settled the
\* key is gone.
PunctualExtension == ([]Punctual) => []ScopedExtension

\* using has returned what its routine returned, after two extensions, the
\* second begun long after the first Lock would have expired; the signal
\* was never aborted, every vote was a vote for, and the key is gone.
PunctualExtensionWitness ==
    \E p \in Callers :
        /\ AllFor(p)
        /\ use[p].phase = "settled"
        /\ use[p].outcome = "returned"
        /\ use[p].extensions = 2
        /\ ~use[p].aborted
        /\ Len(stats[p]) = 4
        /\ Stats(p, 3).start > Stats(p, 1).start + Ms(use[p].duration)
        /\ \A c \in Clients : store[c]["a"] = NoEntry


\* The Lock of `using` of caller p has expired.
Lapsed(p) == locks[p][use[p].lock].expiration < now

\* The extension of caller p has just failed.
ExtensionFailed(p) == UsingExtended(p) /\ result[p].kind # "Lock"

\* An extension that fails before the Lock expires is followed at once by
\* another, with an attempt of its own; the signal stays as it is.
RetriesAtOnce ==
    [][\A p \in Callers :
          (ExtensionFailed(p) /\ now < locks[p][use[p].lock].expiration)
          => /\ use'[p].extension = "pending"
             /\ call'[p].method = "extend"
             /\ Len(stats'[p]) = Len(stats[p]) + 1
             /\ stats'[p][Len(stats'[p])].script = "extendLock"
             /\ use'[p].aborted = use[p].aborted
             /\ use'[p].error = use[p].error]_vars

\* An extension that fails once the Lock has expired sets signal.error to
\* the error of the extend and aborts the signal; no other is started.
AbortsWithError ==
    [][\A p \in Callers :
          (ExtensionFailed(p) /\ now >= locks[p][use[p].lock].expiration)
          => /\ use'[p].aborted
             /\ use'[p].error = result[p].message
             /\ use'[p].error # "none"
             /\ use'[p].extension = "settled"
             /\ stats' = stats
             /\ rpcs' = rpcs]_vars

\* The signal is aborted only with signal.error set.
AbortedWithError ==
    \A p \in Callers : use[p].aborted => use[p].error # "none"

\* While the routine runs, a Lock that has expired is extended after all by
\* the extension in flight, or the signal is aborted.
LapseAborts ==
    \A n \in 0..MaxHandles :
        (Running(1) /\ Lapsed(1) /\ use[1].extensions = n)
        ~> (use[1].aborted \/ use[1].extensions > n \/ ~Running(1))

\* C21: in using, an extension that fails while now < lock.expiration is
\* followed at once by a new extension; one that fails with
\* now >= lock.expiration stores the failure in signal.error and aborts the
\* signal, so that the signal is never aborted without signal.error set; and
\* a Lock that expires while the routine runs, no extension succeeding, leads
\* to an aborted signal in the end.
ExtensionFailureRule ==
    /\ RetriesAtOnce
    /\ AbortsWithError
    /\ []AbortedWithError
    /\ LapseAborts

\* The routine runs under a Lock that has expired: its first extension failed
\* a millisecond before the expiration and was tried again at once, the
\* second failed after the expiration, and the signal is aborted with the
\* error of that extend.
ExtensionFailureRuleWitness ==
    \E p \in Callers :
        /\ Running(p)
        /\ Lapsed(p)
        /\ use[p].extensions = 0
        /\ Len(stats[p]) = 3
        /\ Stats(p, 2).start < locks[p][use[p].lock].expiration
        /\ Stats(p, 3).start = Stats(p, 2).start
        /\ Stats(p, 3).vote = "against"
        /\ use[p].aborted
        /\ use[p].error = "unable to achieve a quorum"


\* C22: the db of the manager is the db given to the constructor when that
\* is an integer from 0 to 15, and 0 for every other input: none, a negative
\* one, one above 15, one that is no integer.  The constructor raises no
\* error for any of them.
DbCoerced ==
    \A g \in DbGiven :
        settings = Constructor(g) =>
            /\ \A n \in 0..15 : <<"db", 2 * n>> \in g => settings.db = n
            /\ (\A n \in 0..15 : <<"db", 2 * n>> \notin g) => settings.db = 0

\* The manager was constructed with db 15, the highest there is, and has
\* handed out a Lock.
DbCoercedWitness ==
    /\ settings.db = 15
    /\ Constructor(DuoGiven \cup {<<"db", 30>>}) = settings
    /\ Constructor(DuoGiven \cup {<<"db", 31>>}).db = 0
    /\ \E p \in Callers : Ended(p, "acquire", "Lock")


\* The vote of client c in the attempt its oldest command belongs to, once
\* this step has settled the command: "for", the error of its vote against,
\* or "none".
VoteOf(p, c) ==
    LET st == stats'[p][Head(rpcs[p][c]).attempt]
    IN  IF c \in st.votesFor /\ \A e \in st.votesAgainst : e[1] # c
        THEN "for"
        ELSE IF c \notin st.votesFor /\ \E e \in st.votesAgainst : e[1] = c
        THEN (CHOOSE e \in st.votesAgainst : e[1] = c)[2]
        ELSE "none"

\* The step settles the oldest command of client c of p, and no other.
Settles(p, c) ==
    /\ rpcs[p][c] # <<>>
    /\ rpcs'[p][c] = Tail(rpcs[p][c])
    /\ \A d \in Clients \ {c} : rpcs'[p][d] = rpcs[p][d]

\* The number of keys the oldest command of client c of p names
Requested(p, c) == Cardinality(stats[p][Head(rpcs[p][c]).attempt].keys)

\* C23: the adapter call of a command yields a vote for exactly when the
\* reply is the number of keys requested; a vote against with a
\* ResourceLockedError when it is a smaller number; a vote against with the
\* error of the failure when the command fails, by an error reply too, or
\* when the reply is no number.  Each of them is a vote in the stats of the
\* attempt: the caller goes on, and nothing is thrown.
AdapterClassifies ==
    [][\A p \in Callers, c \in Clients :
          /\ Reply(p, c) =>
                /\ Settles(p, c)
                /\ Head(rpcs[p][c]).reply = Requested(p, c)
                      <=> VoteOf(p, c) = "for"
                /\ Head(rpcs[p][c]).reply \in 0..(Requested(p, c) - 1)
                      <=> VoteOf(p, c) = "ResourceLockedError"
                /\ Head(rpcs[p][c]).reply = ErrorReply
                      <=> VoteOf(p, c) = "ReplyError"
          /\ Mistyped(p, c) =>
                Settles(p, c) /\ VoteOf(p, c) = "Unexpected result"
          /\ Reject(p, c) =>
                Settles(p, c) /\ VoteOf(p, c) = "Error"
          /\ (rpcs'[p][c] # rpcs[p][c] /\ Len(rpcs'[p][c]) < Len(rpcs[p][c]))
                => /\ VoteOf(p, c) # "none"
                   /\ pc'[p] \in {pc[p], "resolved"}]_vars

\* Of two servers one voted for an acquire of two keys and one against it,
\* with the error of a failed command; the cleanup release got a reply of 2
\* that was no number, and the release of an earlier Lock a reply of 0.
AdapterClassifiesWitness ==
    \E p \in Callers :
        /\ N = 2
        /\ Len(stats[p]) >= 3
        /\ \E a \in 1..Len(stats[p]) :
              /\ Stats(p, a).script = "acquireLock"
              /\ Cardinality(Stats(p, a).keys) = 2
              /\ Cardinality(Stats(p, a).votesFor) = 1
              /\ \E c \in Clients : <<c, "Error">> \in Stats(p, a).votesAgainst
        /\ \E a \in 1..Len(stats[p]), c \in Clients :
              <<c, "Unexpected result">> \in Stats(p, a).votesAgainst
        /\ \E a \in 1..Len(stats[p]), c \in Clients :
              /\ Stats(p, a).script = "releaseLock"
              /\ <<c, "ResourceLockedError">> \in Stats(p, a).votesAgainst


\* What the votes of an attempt tallied so far amount to
Decision(st) ==
    IF Cardinality(st.votesFor) >= st.quorumSize THEN "for"
    ELSE IF Cardinality(st.votesAgainst) >= st.quorumSize THEN "against"
    ELSE "none"

\* An attempt has resolved for exactly when a quorum has voted for, against
\* exactly when a quorum has voted against, and the two never hold together.
DecidedByQuorum ==
    \A p \in Callers : \A a \in 1..Len(stats[p]) :
        /\ Stats(p, a).quorumSize = (N \div 2) + 1
        /\ Stats(p, a).vote = Decision(Stats(p, a))
        /\ ~(/\ Cardinality(Stats(p, a).votesFor) >= Stats(p, a).quorumSize
             /\ Cardinality(Stats(p, a).votesAgainst)
                   >= Stats(p, a).quorumSize)

\* An attempt resolves at the vote that completes a quorum, and a resolved
\* attempt stays as it resolved whatever is tallied afterwards.
DecidedForGood ==
    [][\A p \in Callers : \A a \in 1..Len(stats[p]) :
          /\ stats[p][a].vote # "none" => stats'[p][a].vote = stats[p][a].vote
          /\ (stats[p][a].vote = "none" /\ stats'[p][a].vote = "for") =>
                /\ Cardinality(stats'[p][a].votesFor) = stats[p][a].quorumSize
                /\ Cardinality(stats[p][a].votesFor)
                      = stats[p][a].quorumSize - 1
                /\ pc'[p] = "resolved"
          /\ (stats[p][a].vote = "none" /\ stats'[p][a].vote = "against") =>
                /\ Cardinality(stats'[p][a].votesAgainst)
                      = stats[p][a].quorumSize
                /\ Cardinality(stats[p][a].votesAgainst)
                      = stats[p][a].quorumSize - 1
                /\ pc'[p] = "resolved"]_vars

\* C24: an attempt resolves at most once: for at the vote that makes
\* |votesFor| the quorum, against at the vote that makes |votesAgainst| the
\* quorum, whichever comes first; the votes tallied afterwards do not change
\* the decision; and in no attempt do |votesFor| and |votesAgainst| both
\* reach the quorum.
ResolvesOnce == []DecidedByQuorum /\ DecidedForGood

\* Of three servers, two voted for the first acquire and the third, whose
\* command had failed, against it; in an attempt of the second acquire those
\* two voted against and the third for.  All six votes are tallied.
ResolvesOnceWitness ==
    \E p \in Callers :
        /\ N = 3
        /\ \E a \in 1..Len(stats[p]) :
              /\ Stats(p, a).vote = "for"
              /\ Cardinality(Stats(p, a).votesFor) = 2
              /\ Cardinality(Stats(p, a).votesAgainst) = 1
        /\ \E a \in 1..Len(stats[p]) :
              /\ Stats(p, a).vote = "against"
              /\ Cardinality(Stats(p, a).votesFor) = 1
              /\ Cardinality(Stats(p, a).votesAgainst) = 2


\* The clients that have voted in an attempt
Voted(st) == st.votesFor \cup {e[1] : e \in st.votesAgainst}

\* The commands of attempt a of caller p that have not settled
InFlight(p, a) ==
    {c \in Clients : \E i \in 1..Len(rpcs[p][c]) : rpcs[p][c][i].attempt = a}

\* In every attempt the votes are at most N, one per server at most, and
\* the stats handle is complete exactly when they are N: every command of
\* the attempt has settled then.
Tallied ==
    \A p \in Callers : \A a \in 1..Len(stats[p]) :
        /\ Cardinality(Stats(p, a).votesFor)
              + Cardinality(Stats(p, a).votesAgainst) <= N
        /\ \A e \in Stats(p, a).votesAgainst : e[1] \notin Stats(p, a).votesFor
        /\ \A e, f \in Stats(p, a).votesAgainst : e[1] = f[1] => e = f
        /\ Voted(Stats(p, a)) \cap InFlight(p, a) = {}
        /\ Voted(Stats(p, a)) \cup InFlight(p, a) = Clients
        /\ Stats(p, a).done <=>
              Cardinality(Stats(p, a).votesFor)
                 + Cardinality(Stats(p, a).votesAgainst) = N
        /\ Stats(p, a).done => InFlight(p, a) = {}

\* A stats handle completes once: at the vote that makes the votes N, and
\* for good, its votes staying as they are.
CompletesOnce ==
    [][\A p \in Callers : \A a \in 1..Len(stats[p]) :
          /\ stats[p][a].done => stats'[p][a] = stats[p][a]
          /\ (~stats[p][a].done /\ stats'[p][a].done) =>
                /\ Cardinality(Voted(stats[p][a])) = N - 1
                /\ Cardinality(Voted(stats'[p][a])) = N]_vars

\* The stats handle of every attempt completes in the end.
Completes ==
    \A a \in 1..MaxHandles :
        (Len(stats[1]) >= a) ~> (Len(stats[1]) >= a /\ stats[1][a].done)

\* C25: in every attempt |votesFor| + |votesAgainst| <= N at all times and
\* no server is in both; the stats handle of the attempt completes exactly
\* once, at the moment the sum reaches N, when all N commands have settled,
\* which may be after the attempt resolved; and when every command settles
\* it completes in the end.
StatsComplete == []Tallied /\ CompletesOnce /\ Completes

\* Of three servers two have voted for: the attempt has resolved and the
\* acquire has returned its Lock, while the third command is in flight and
\* the stats handle of the attempt is not complete.
StatsCompleteWitness ==
    \E p \in Callers :
        /\ N = 3
        /\ Ended(p, "acquire", "Lock")
        /\ Len(stats[p]) = 1
        /\ Stats(p, 1).vote = "for"
        /\ Cardinality(Stats(p, 1).votesFor) = 2
        /\ Cardinality(InFlight(p, 1)) = 1
        /\ ~Stats(p, 1).done


\* Attempts a and b of caller p are attempts of one acquire.
SameAcquire(p, a, b) ==
    /\ Stats(p, a).script = "acquireLock"
    /\ Stats(p, b).script = "acquireLock"
    /\ Stats(p, a).value = Stats(p, b).value

\* An attempt of an acquire that is followed by another has resolved
\* against, and the next one started no sooner than the shortest wait later.
OneAtATime ==
    \A p \in Callers : \A a \in 1..Len(stats[p]), b \in 1..Len(stats[p]) :
        (a < b /\ SameAcquire(p, a, b)) =>
            /\ Stats(p, a).vote = "against"
            /\ Stats(p, b).start >= Stats(p, a).start
                  + (IF settings.retryDelay > settings.retryJitter
                     THEN settings.retryDelay - settings.retryJitter ELSE 0)

\* The steps of one operation: the wait after an attempt that resolved
\* against is max(0, retryDelay + jitter) from then on, and is taken only
\* when an attempt is to follow; the next attempt is started only when the
\* wait is over; and a command that settles is tallied in the stats of the
\* attempt it was sent in, and in no other.
InTurn ==
    [][\A p \in Callers :
          /\ (pc[p] = "resolved" /\ pc'[p] = "sleep") =>
                /\ Stats(p, Len(stats[p])).vote = "against"
                /\ Len(exec'[p].attempts) < exec[p].retryCount + 1
                /\ \E j \in (-exec[p].retryJitter)..exec[p].retryJitter :
                      exec'[p].wakeAt - now =
                         IF exec[p].retryDelay + j > 0
                         THEN exec[p].retryDelay + j ELSE 0
          /\ (/\ pc[p] = "resolved"
              /\ Stats(p, Len(stats[p])).vote = "against"
              /\ Len(exec[p].attempts) + 1 = exec[p].retryCount + 1) =>
                /\ pc'[p] = "thrown"
                /\ now' = now
                /\ stats' = stats
          /\ (/\ Len(stats'[p]) > Len(stats[p])
              /\ exec'[p] = exec[p]
              /\ exec[p].attempts # <<>>) =>
                /\ pc[p] = "sleep"
                /\ now >= exec[p].wakeAt
                /\ Stats(p, Len(stats[p])).vote = "against"
          /\ \A c \in Clients :
                (rpcs[p][c] # <<>> /\ rpcs'[p][c] = Tail(rpcs[p][c])) =>
                    \A a \in 1..Len(stats[p]) :
                        a # Head(rpcs[p][c]).attempt =>
                            stats'[p][a] = stats[p][a]]_vars

\* C26: the attempts of one operation come one after the other: no command
\* of attempt k+1 is sent before attempt k has resolved against and the wait
\* between the two is over, though commands of attempt k may still be in
\* flight, and they are tallied in the stats of attempt k only; after the
\* last attempt there is no wait.
Sequential == []OneAtATime /\ InTurn

\* Of three servers two hold the key of a Lock.  The first attempt of
\* another acquire resolved against on their two votes; its third command
\* is still in flight when, a millisecond later, a vote of the second
\* attempt has been tallied.
SequentialWitness ==
    \E p \in Callers :
        /\ N = 3
        /\ Len(stats[p]) = 3
        /\ SameAcquire(p, 2, 3)
        /\ Stats(p, 2).vote = "against"
        /\ Cardinality(InFlight(p, 2)) = 1
        /\ Cardinality(Voted(Stats(p, 2))) = 2
        /\ Stats(p, 3).start = Stats(p, 2).start + 1
        /\ Cardinality(Voted(Stats(p, 3))) >= 1


\* The number of attempts the frame of _execute caller p is in has started
Started(p) ==
    Len(exec[p].attempts) + (IF pc[p] \in {"attempt", "resolved"} THEN 1 ELSE 0)

\* The list is the attempts from..to of the caller, in the order started.
Listed(attempts, from, to) ==
    /\ Len(attempts) = to - from + 1
    /\ \A k \in 1..Len(attempts) : attempts[k] = from + k - 1

\* The list of a frame of _execute holds, in order, the stats handle of
\* every attempt the frame has started and that has resolved.
ListsAttempts ==
    \A p \in Callers :
        exec[p].command # "none" =>
            /\ Listed(exec[p].attempts, Len(stats[p]) - Started(p) + 1,
                      Len(stats[p]) - Started(p) + Len(exec[p].attempts))
            /\ \A a \in Handles(exec[p].attempts) :
                  /\ Stats(p, a).script = exec[p].command
                  /\ Stats(p, a).value = exec[p].value
                  /\ Stats(p, a).vote # "none"

\* What a successful acquire, extend or release returns: the stats handles
\* of the attempts it made, in order, each but the last resolved against and
\* the last for, and the start of the last.
ReturnsAttempts ==
    \A p \in Callers :
        (pc[p] = "idle" /\ result[p].kind \in {"Lock", "ExecutionResult"}) =>
            /\ Len(result[p].attempts) >= 1
            /\ Listed(result[p].attempts,
                      Len(stats[p]) - Len(result[p].attempts) + 1,
                      Len(stats[p]))
            /\ \A k \in 1..Len(result[p].attempts) :
                  /\ Stats(p, result[p].attempts[k]).vote =
                        IF k = Len(result[p].attempts) THEN "for" ELSE "against"
                  /\ Stats(p, result[p].attempts[k]).script =
                        CASE result[p].method = "acquire" -> "acquireLock"
                          [] result[p].method = "extend" -> "extendLock"
                          [] result[p].method = "release" -> "releaseLock"
            /\ result[p].start = Stats(p, Len(stats[p])).start
            /\ result[p].kind = "Lock" =>
                  Latest(p).attempts = result[p].attempts

\* A call starts with an empty list; the list grows by the attempt that has
\* just resolved and by nothing else; and the call returns the list of its
\* frame.
ListGrows ==
    [][\A p \in Callers :
          /\ (exec[p].command = "none" /\ exec'[p].command # "none") =>
                exec'[p].attempts = <<>>
          /\ (exec[p].command # "none" /\ exec'[p].command = exec[p].command
              /\ call'[p].method = call[p].method) =>
                \/ exec'[p].attempts = exec[p].attempts
                \/ /\ pc[p] = "resolved"
                   /\ exec'[p].attempts =
                         Append(exec[p].attempts, Len(stats[p]))
          /\ (pc[p] = "returned" /\ call[p].method # "cleanup") =>
                result'[p].attempts = exec[p].attempts]_vars

\* C27: a successful operation returns a list with exactly one stats handle
\* for each attempt it made, in the order made, the last one that of the
\* attempt that decided; during the operation the list only grows; and the
\* start returned is the start of the attempt that decided.
AttemptsListed == []ListsAttempts /\ []ReturnsAttempts /\ ListGrows

\* A release that found its quorum at its second attempt, a millisecond
\* after the first: it returned both handles and the start of the second.
AttemptsListedWitness ==
    \E p \in Callers :
        /\ Ended(p, "release", "ExecutionResult")
        /\ Len(result[p].attempts) = 2
        /\ Stats(p, result[p].attempts[1]).vote = "against"
        /\ Stats(p, result[p].attempts[2]).start
              = Stats(p, result[p].attempts[1]).start + 1
        /\ result[p].start = Stats(p, result[p].attempts[2]).start


\* Caller p is in a frame of _execute that retries for ever.
Unbounded(p) == exec[p].command # "none" /\ exec[p].retryCount = -1

\* A frame that retries for ever never throws.
NeverGivesUp == \A p \in Callers : Unbounded(p) => pc[p] # "thrown"

\* In a frame that retries for ever, an attempt that resolved against is
\* followed by a wait and another attempt, one that resolved for by the
\* return of the call; the call does not end in an error.
GoesOn ==
    [][\A p \in Callers :
          /\ (Unbounded(p) /\ pc[p] = "resolved") =>
                /\ Stats(p, Len(stats[p])).vote = "against" =>
                      /\ pc'[p] = "sleep"
                      /\ exec'[p].attempts =
                            Append(exec[p].attempts, Len(stats[p]))
                /\ Stats(p, Len(stats[p])).vote = "for" =>
                      pc'[p] = "returned"
          /\ (Unbounded(p) /\ pc[p] = "sleep" /\ pc'[p] # "sleep") =>
                pc'[p] = "attempt" /\ Len(stats'[p]) = Len(stats[p]) + 1
          /\ (Unbounded(p) /\ exec'[p].command = "none") =>
                /\ pc[p] = "returned"
                /\ result'[p].kind \in {"Lock", "ExecutionResult"}]_vars

\* C28: with a retryCount of -1 an operation never fails for want of a
\* quorum: as long as its attempts resolve against it makes another, and it
\* returns as soon as one resolves for.
RetriesForEver == []NeverGivesUp /\ GoesOn

\* An acquire that returned a Lock at its fourth attempt, the three before
\* having resolved against.
RetriesForEverWitness ==
    \E p \in Callers :
        /\ settings.retryCount = -1
        /\ Ended(p, "acquire", "Lock")
        /\ Len(result[p].attempts) = 4
        /\ \A k \in 1..3 : Stats(p, result[p].attempts[k]).vote = "against"
        /\ Stats(p, result[p].attempts[4]).vote = "for"


\* C29: an acquire, an extend of a Lock that has not expired, or a release
\* that fails for want of a quorum has made at least one attempt: its error
\* carries a stats handle, and commands were sent to the servers.
AlwaysAttempts ==
    \A p \in Callers :
        (/\ pc[p] = "idle"
         /\ result[p].kind = "ExecutionError"
         /\ result[p].message = "unable to achieve a quorum") =>
            /\ Len(result[p].attempts) >= 1
            /\ \E a \in 1..Len(stats[p]) :
                  Stats(p, a).script =
                     CASE result[p].method = "acquire" -> "acquireLock"
                       [] result[p].method = "extend" -> "extendLock"
                       [] result[p].method = "release" -> "releaseLock"


\* C30: once an adapter call of an attempt has been rejected, the operation
\* is over: the attempt does not resolve on the votes that remain, and the
\* caller neither gets a result nor starts another attempt.
RejectionIsFatal ==
    [][\A p \in Callers : \A a \in 1..Len(stats[p]) :
          (stats[p][a].failed # {} /\ a = Len(stats[p])) =>
             /\ stats'[p][a].vote = stats[p][a].vote
             /\ pc[p] = "attempt" => pc'[p] \in {"attempt", "crashed"}
             /\ Len(stats'[p]) = Len(stats[p])
             /\ result'[p] = result[p]]_vars


\* The attempt that made `lock`: the last of its list
Decisive(lock) == lock.attempts[Len(lock.attempts)]

\* Caller p has started, since Lock i was made, an attempt of one of
\* `scripts` that carries the value of the Lock.
Since(p, i, scripts) ==
    \E a \in DOMAIN stats[p] :
        /\ a > Decisive(locks[p][i])
        /\ Stats(p, a).script \in scripts
        /\ Stats(p, a).value = locks[p][i].value

\* Server c holds every key of `lock` under the value of the lock, with a
\* TTL that runs out later than the lock expires.
Keeps(c, lock) ==
    \A k \in lock.resources :
        /\ store[c][k].value = lock.value
        /\ store[c][k].expires > lock.expiration

\* Until Lock i of caller p expires, every server that voted for in the
\* attempt that made it keeps its keys, a quorum of servers at least, unless
\* the holder has sent one of `scripts` for the lock since.
Leased(scripts) ==
    \A p \in Callers :
      \A i \in DOMAIN locks[p] :
        (/\ locks[p][i].expiration >= now
         /\ ~Since(p, i, scripts))
            => /\ \A c \in Stats(p, Decisive(locks[p][i])).votesFor :
                    Keeps(c, locks[p][i])
               /\ Cardinality({c \in Clients : Keeps(c, locks[p][i])})
                    >= QuorumSize(N)

Issues(p, script) ==
    /\ Len(stats'[p]) = Len(stats[p]) + 1
    /\ stats'[p][Len(stats'[p])].script = script

\* Every attempt of extend caller p has started has resolved.
ExtendsResolved(p) ==
    \A a \in DOMAIN stats[p] :
        Stats(p, a).script = "extendLock" => Stats(p, a).vote # "none"

\* The release of `using` is sent only when the promise `extension` is
\* settled, the extension that took the place of one that failed included,
\* and every attempt of extend has resolved.
ReleaseAwaitsExtension ==
    [][\A p \in Callers :
          (Issues(p, "releaseLock") /\ use[p].phase = "finally")
              => /\ use[p].extension # "pending"
                 /\ call[p].method # "extend"
                 /\ ExtendsResolved(p)]_vars

\* Once the release of `using` has begun no extend is sent to the servers.
NoExtendAfterRelease ==
    [][\A p \in Callers :
          use[p].phase \in {"releasing", "settled"}
              => ~Issues(p, "extendLock")]_vars

\* The server behind client c has run the command of attempt a of caller p.
HasRun(p, a, c) ==
    \/ c \in Stats(p, a).votesFor
    \/ <<c, "ResourceLockedError">> \in Stats(p, a).votesAgainst
    \/ \E i \in DOMAIN rpcs[p][c] :
          rpcs[p][c][i].attempt = a /\ rpcs[p][c][i].ran

\* A server that has run the release of `using` holds no key under the value
\* of the lock ever after.
NeverRecreated ==
    \A p \in Callers, c \in Clients :
      \A a \in DOMAIN stats[p] :
        (/\ use[p].phase \in {"releasing", "settled"}
         /\ Stats(p, a).script = "releaseLock"
         /\ HasRun(p, a, c))
            => \A k \in Stats(p, a).keys :
                  store[c][k].value # Stats(p, a).value

\* C32: on exit of using, no release is sent while an extension of the
\* automatic extension loop, its immediate retries included, is unresolved;
\* no extend is sent once the final release has begun; and a key the release
\* deleted is never created again by a late extend that carries the value of
\* the lock.
ExitOrdered ==
    ReleaseAwaitsExtension /\ NoExtendAfterRelease /\ []NeverRecreated

\* The routine ended while the first extension was in flight on MaxClients
\* servers; the extension resolved on two votes and set a new timer, and the
\* release has run on the first server while the extend sent to the third
\* is in flight still, ahead of the release.
ExitOrderedWitness ==
    /\ N = MaxClients
    /\ use[1].phase = "releasing"
    /\ use[1].extensions = 1
    /\ use[1].timeout # NoTimer
    /\ Len(rpcs[1][MaxClients]) = 2
    /\ Stats(1, rpcs[1][MaxClients][1].attempt).script = "extendLock"
    /\ ~rpcs[1][MaxClients][1].ran
    /\ Stats(1, rpcs[1][MaxClients][2].attempt).script = "releaseLock"
    /\ HasRun(1, Len(stats[1]), 1)
    /\ store[1]["a"].value = NoValue
    /\ store[MaxClients]["a"].value = Latest(1).value


\* C33: acquire never returns a Lock that has expired already: at the
\* instant acquire returns, the expiration of the Lock is later than now,
\* whatever the number of attempts made and however long the commands of the
\* decisive attempt took.
NeverBornExpired ==
    [][\A p \in Callers :
          AcquireReturn(p) => locks'[p][Len(locks'[p])].expiration > now']_vars

====
